---------------------------- MODULE Spec2Model ----------------------------
(***************************************************************************)
(* A model of the SOM front end of jtdowney/som-rust:                      *)
(*   - compiler/peekable_buffer.rs : the character buffer with a backlog   *)
(*   - compiler/lexer.rs           : Lexer::read_token over that buffer    *)
(*   - util/peekable_buffer.rs     : the line buffer that tracks locations *)
(*   - compiler/parser.rs          : the recursive-descent parser          *)
(* Characters are one-character strings, texts are sequences of            *)
(* characters, Option<T> is a sequence of length 0 (None) or 1 (Some).     *)
(* Operators in snake_case are the functions of the source under their own *)
(* names; a function that returns Result yields a record with the object's *)
(* state after the call and the kind of the result.                        *)
(***************************************************************************)
EXTENDS Integers, Sequences, FiniteSets, TLC

VARIABLES
    buffer,     \* Lexer.buffer: compiler::PeekableBuffer {source, backlog}
    emitted,    \* the tokens read_token has returned so far, in order
    status,     \* how the last read_token ended: Init, Ok, Eof, Panic, Diverge
    source0,    \* the text the lexer was constructed on
    lexer,      \* Parser.lexer: Peekable<Lexer>: {rest, peeked}
    queue,      \* Parser.queue: VecDeque<Item>
    filename,   \* Parser.filename
    input,      \* the items the parser's lexer was constructed to yield
    call        \* the last method called on the parser and what it returned

vars == <<buffer, emitted, status, source0, lexer, queue, filename, input, call>>

lexerVars == <<buffer, emitted, status, source0>>

parserVars == <<lexer, queue, filename, input, call>>

---------------------------------------------------------------------------
(* Bounds of the model. *)

\* longest source text given to the lexer
MaxSource == 5

\* Option<T>
None == <<>>

Some(x) == <<x>>

IsSome(o) == Len(o) = 1

Unwrap(o) == o[1]

\* all sequences over S of length at most n
RECURSIVE SeqsUpTo(_, _)
SeqsUpTo(S, n) ==
    IF n = 0 THEN {<<>>}
    ELSE LET shorter == SeqsUpTo(S, n - 1)
         IN  shorter \cup {Append(s, x) : s \in {t \in shorter : Len(t) = n - 1}, x \in S}

---------------------------------------------------------------------------
(* Character classes. *)

Letters == {"a", "b", "k", "f", "W", "p"}

Digits == {"0", "1", "2", "3", "4", "5", "6", "7", "8", "9"}

\* char::is_whitespace on the characters of the model
is_whitespace(c) == c \in {" ", "\n", "\t"}

\* the 'a'...'z' | 'A'...'Z' arms
is_letter(c) == c \in Letters

is_digit(c) == c \in Digits

is_operator(c) == c \in {"~", "&", "|", "*", "/", "\\", "+", "=", ">", "<", ",", "@", "%"}

---------------------------------------------------------------------------
(* compiler::PeekableBuffer (compiler/peekable_buffer.rs). The source is   *)
(* the text the underlying reader has not delivered yet; reading past its  *)
(* end is Err(EndOfFile), here ok = FALSE.                                 *)

PeekableBuffer_new(source) == [source |-> source, backlog |-> <<>>]

\* self.source.read_char()
source_read_char(b) ==
    IF b.source = <<>>
    THEN [b |-> b, ok |-> FALSE, c |-> ""]
    ELSE [b |-> [b EXCEPT !.source = Tail(b.source)], ok |-> TRUE, c |-> Head(b.source)]

buffer_consume(b) ==
    IF b.backlog = <<>>
    THEN LET r == source_read_char(b) IN [b |-> r.b, ok |-> r.ok]
    ELSE [b |-> [b EXCEPT !.backlog = Tail(b.backlog)], ok |-> TRUE]

peek_char(b) ==
    IF b.backlog = <<>>
    THEN LET r == source_read_char(b)
         IN  IF r.ok
             THEN [b |-> [r.b EXCEPT !.backlog = Append(r.b.backlog, r.c)], ok |-> TRUE, c |-> r.c]
             ELSE [b |-> r.b, ok |-> FALSE, c |-> ""]
    ELSE [b |-> b, ok |-> TRUE, c |-> b.backlog[1]]

is_eof(b) == ~peek_char(b).ok

peek_peek_char(b) ==
    CASE Len(b.backlog) = 0 ->
            LET r1 == source_read_char(b)
                r2 == source_read_char(r1.b)
            IN  IF ~r1.ok THEN [b |-> r1.b, ok |-> FALSE, c |-> ""]
                ELSE IF ~r2.ok THEN [b |-> r2.b, ok |-> FALSE, c |-> ""]
                ELSE [b |-> [r2.b EXCEPT !.backlog = <<r1.c, r2.c>>], ok |-> TRUE, c |-> r2.c]
      [] Len(b.backlog) = 1 ->
            LET r == source_read_char(b)
            IN  IF ~r.ok THEN [b |-> r.b, ok |-> FALSE, c |-> ""]
                ELSE [b |-> [r.b EXCEPT !.backlog = Append(r.b.backlog, r.c)],
                      ok |-> TRUE, c |-> r.c]
      [] OTHER -> [b |-> b, ok |-> TRUE, c |-> b.backlog[2]]

read_char(b) ==
    IF b.backlog = <<>>
    THEN source_read_char(b)
    ELSE [b |-> [b EXCEPT !.backlog = Tail(b.backlog)], ok |-> TRUE, c |-> b.backlog[1]]

---------------------------------------------------------------------------
(* Tokens. A token is a symbol with an optional text (compiler/token.rs);  *)
(* the lexer's enum carries the same payloads.                             *)

Token(sym) == [sym |-> sym, text |-> None]

TokenText(sym, text) == [sym |-> sym, text |-> Some(text)]

NoToken == Token("")

\* IoResult<Token>: Ok(token), Err(EndOfFile), a panic, or a loop that never ends
LexOk(b, token) == [b |-> b, kind |-> "Ok", token |-> token]

LexEof(b) == [b |-> b, kind |-> "Eof", token |-> NoToken]

LexPanic(b) == [b |-> b, kind |-> "Panic", token |-> NoToken]

LexDiverge(b) == [b |-> b, kind |-> "Diverge", token |-> NoToken]

\* the width of the integers of the model: the largest value of the target type
I64Max == 127

DigitValue(c) == CHOOSE n \in 0..9 : <<"0", "1", "2", "3", "4", "5", "6", "7", "8", "9">>[n + 1] = c

\* from_str / str::parse on a run of digits: Some(value), or None when the
\* value does not fit the type (checked multiply and add, digit by digit)
RECURSIVE parse_int_from(_, _)
parse_int_from(text, acc) ==
    IF text = <<>> THEN Some(acc)
    ELSE LET d == DigitValue(Head(text))
         IN  IF acc > (I64Max - d) \div 10 THEN None
             ELSE parse_int_from(Tail(text), acc * 10 + d)

parse_int(text) == IF text = <<>> THEN None ELSE parse_int_from(text, 0)

---------------------------------------------------------------------------
(* Lexer (compiler/lexer.rs). *)

RECURSIVE skip_whitespace(_)
skip_whitespace(b) ==
    LET r == peek_char(b)
    IN  IF ~r.ok THEN [b |-> r.b, ok |-> FALSE]
        ELSE IF is_whitespace(r.c) THEN skip_whitespace(buffer_consume(r.b).b)
        ELSE [b |-> r.b, ok |-> TRUE]

\* the loop of skip_comment: read up to and including the closing quote; at
\* the end of the input read_char keeps returning Err and the loop never ends
RECURSIVE skip_comment_loop(_)
skip_comment_loop(b) ==
    LET r == read_char(b)
    IN  IF ~r.ok THEN [b |-> r.b, kind |-> "Diverge"]
        ELSE IF r.c = "\"" THEN [b |-> r.b, kind |-> "Ok"]
        ELSE skip_comment_loop(r.b)

skip_comment(b) ==
    LET r == peek_char(b)
    IN  IF ~(r.ok /\ r.c = "\"") THEN [b |-> r.b, kind |-> "Ok"]
        ELSE skip_comment_loop(buffer_consume(r.b).b)

tokenize_token(b, token) ==
    LET r == buffer_consume(b)
    IN  IF r.ok THEN LexOk(r.b, token) ELSE LexEof(r.b)

tokenize_colon(b) ==
    LET r == buffer_consume(b)
        p == peek_char(r.b)
    IN  IF ~r.ok THEN LexEof(r.b)
        ELSE IF p.ok /\ p.c = "=" THEN tokenize_token(p.b, Token("Assign"))
        ELSE LexOk(p.b, Token("Colon"))

\* the loop of tokenize_minus: read characters up to and including the first
\* one that is not '-' (or up to the end of the input)
RECURSIVE tokenize_minus_loop(_)
tokenize_minus_loop(b) ==
    LET r == read_char(b)
    IN  IF r.ok /\ r.c = "-" THEN tokenize_minus_loop(r.b) ELSE r.b

tokenize_minus(b) ==
    LET r == buffer_consume(b)
        p == peek_char(r.b)
        pp == peek_peek_char(p.b)
    IN  IF ~r.ok THEN LexEof(r.b)
        ELSE IF p.ok /\ p.c = "-"
        THEN IF pp.ok /\ pp.c = "-"
             THEN LexOk(tokenize_minus_loop(pp.b), Token("Separator"))
             ELSE LexOk(pp.b, Token("Minus"))
        ELSE LexOk(p.b, Token("Minus"))

\* the loops that collect a run of characters of a class into text
RECURSIVE take_while(_, _, _)
take_while(b, text, class) ==
    LET r == peek_char(b)
    IN  IF r.ok /\ r.c \in class
        THEN take_while(buffer_consume(r.b).b, Append(text, r.c), class)
        ELSE [b |-> r.b, text |-> text]

IdentifierChars == Letters \cup Digits \cup {"_"}

SequenceChars == Letters \cup {":"}

OperatorChars == {"~", "&", "|", "*", "/", "\\", "+", "=", ">", "<", ",", "@", "%"}

tokenize_identifier(b) ==
    LET run == take_while(b, <<>>, IdentifierChars)
        p == peek_char(run.b)
    IN  IF p.ok /\ p.c = ":"
        THEN LET c == buffer_consume(p.b)
                 text == Append(run.text, ":")
                 q == peek_char(c.b)
             IN  IF q.ok /\ is_letter(q.c)
                 THEN LET seq == take_while(q.b, text, SequenceChars)
                      IN  LexOk(seq.b, TokenText("KeywordSequence", seq.text))
                 ELSE LexOk(q.b, TokenText("Keyword", text))
        ELSE IF run.text = <<"p", "r", "i", "m", "i", "t", "i", "v", "e">>
        THEN LexOk(p.b, Token("Primitive"))
        ELSE LexOk(p.b, TokenText("Identifier", run.text))

\* tokenize_number taking any '.' after the digits for a decimal point
tokenize_number_any_period(b) ==
    LET run == take_while(b, <<>>, Digits)
        p == peek_char(run.b)
    IN  IF p.ok /\ p.c = "."
        THEN LET c == buffer_consume(p.b)
                 frac == take_while(c.b, Append(run.text, "."), Digits)
             IN  LexOk(frac.b, TokenText("Double", frac.text))
        ELSE IF parse_int(run.text) = None THEN LexPanic(p.b)
        ELSE LexOk(p.b, TokenText("Integer", run.text))

tokenize_number(b) ==
    LET run == take_while(b, <<>>, Digits)
        p == peek_char(run.b)
        pp == IF p.ok /\ p.c = "." THEN peek_peek_char(p.b) ELSE [b |-> p.b, ok |-> FALSE, c |-> ""]
        saw_decimal == pp.ok /\ is_digit(pp.c)
    IN  IF saw_decimal
        THEN LET c == buffer_consume(pp.b)
                 frac == take_while(c.b, Append(run.text, "."), Digits)
             IN  LexOk(frac.b, TokenText("Double", frac.text))
        ELSE IF parse_int(run.text) = None THEN LexPanic(pp.b)
        ELSE LexOk(pp.b, TokenText("Integer", run.text))

\* the loop of tokenize_string: a read past the end of the input is Err
RECURSIVE tokenize_string_loop(_, _)
tokenize_string_loop(b, text) ==
    LET r == read_char(b)
    IN  IF ~r.ok THEN LexEof(r.b)
        ELSE IF r.c = "'" THEN LexOk(r.b, TokenText("String", text))
        ELSE tokenize_string_loop(r.b, Append(text, r.c))

tokenize_string(b) ==
    LET r == buffer_consume(b)
    IN  IF ~r.ok THEN LexEof(r.b) ELSE tokenize_string_loop(r.b, <<>>)

operator_symbol(c) ==
    CASE c = "~" -> "Not"
      [] c = "&" -> "And"
      [] c = "|" -> "Or"
      [] c = "*" -> "Star"
      [] c = "/" -> "Divide"
      [] c = "\\" -> "Modulus"
      [] c = "+" -> "Plus"
      [] c = "=" -> "Equal"
      [] c = ">" -> "More"
      [] c = "<" -> "Less"
      [] c = "," -> "Comma"
      [] c = "@" -> "At"
      [] c = "%" -> "Percent"

tokenize_operator(b) ==
    LET r == read_char(b)
        p == peek_char(r.b)
    IN  IF ~r.ok THEN LexEof(r.b)
        ELSE IF p.ok /\ is_operator(p.c)
        THEN LET run == take_while(p.b, <<r.c>>, OperatorChars)
             IN  LexOk(run.b, TokenText("OperatorSequence", run.text))
        ELSE LexOk(p.b, Token(operator_symbol(r.c)))

\* the match of read_token on the first character of the lexeme
dispatch(b, c) ==
    CASE c = "[" -> tokenize_token(b, Token("NewBlock"))
      [] c = "]" -> tokenize_token(b, Token("EndBlock"))
      [] c = "(" -> tokenize_token(b, Token("NewTerm"))
      [] c = ")" -> tokenize_token(b, Token("EndTerm"))
      [] c = "#" -> tokenize_token(b, Token("Pound"))
      [] c = "^" -> tokenize_token(b, Token("Exit"))
      [] c = "." -> tokenize_token(b, Token("Period"))
      [] c = "'" -> tokenize_string(b)
      [] is_digit(c) -> tokenize_number(b)
      [] c = ":" -> tokenize_colon(b)
      [] c = "-" -> tokenize_minus(b)
      [] is_letter(c) -> tokenize_identifier(b)
      [] OTHER -> IF is_operator(c) THEN tokenize_operator(b)
                  ELSE tokenize_token(b, TokenText("None", <<c>>))

RECURSIVE read_token(_)
read_token(b) ==
    LET ws == skip_whitespace(b)
        cm == skip_comment(ws.b)
        p == peek_char(cm.b)
    IN  IF ~ws.ok THEN LexEof(ws.b)
        ELSE IF cm.kind = "Diverge" THEN LexDiverge(cm.b)
        ELSE IF ~p.ok THEN LexEof(p.b)
        ELSE IF is_whitespace(p.c) \/ p.c = "\"" THEN read_token(p.b)
        ELSE dispatch(p.b, p.c)

---------------------------------------------------------------------------
(* The parser before any input is given to it. *)

NewCall(p) ==
    [op |-> "new", arg |-> <<>>, before |-> p, kind |-> "Ok", val |-> <<>>, longest |-> 0]

Parser_new(items, name) ==
    [lexer |-> [rest |-> items, peeked |-> None], queue |-> <<>>, filename |-> name,
     longest |-> 0]

ParserIdle ==
    /\ lexer = [rest |-> <<>>, peeked |-> None]
    /\ queue = <<>>
    /\ filename = "test"
    /\ input = <<>>
    /\ call = NewCall(Parser_new(<<>>, "test"))

---------------------------------------------------------------------------
(* The lexer as a state machine: Lexer::new, then read_token again and     *)
(* again until it fails.                                                   *)

LexChars == {"-", "a", ")", " "}

LexSources == SeqsUpTo(LexChars, MaxSource)

InitLexer ==
    /\ source0 \in LexSources
    /\ buffer = PeekableBuffer_new(source0)
    /\ emitted = <<>>
    /\ status = "Init"
    /\ ParserIdle

ReadToken ==
    /\ status \in {"Init", "Ok"}
    /\ LET r == read_token(buffer)
       IN  /\ buffer' = r.b
           /\ status' = r.kind
           /\ emitted' = IF r.kind = "Ok" THEN Append(emitted, r.token) ELSE emitted
    /\ UNCHANGED <<source0, parserVars>>

NextLexer == ReadToken

SpecLexer == InitLexer /\ [][NextLexer]_vars

---------------------------------------------------------------------------
(* Parser (compiler/parser.rs): the token queue and the lexer behind it.   *)
(* An Item is a token with the location of its first character. A parser   *)
(* p is {lexer, queue, filename}; every method returns the parser after    *)
(* the call, the kind of its result (Ok, ParseError, MismatchError, End,   *)
(* or Panic for unwrap() and unreachable!()) and the value it carries.     *)
(* With p goes longest, the greatest length its queue has had since the    *)
(* call under way began: push_back in peek is where the queue grows.       *)

Item(token, location) == [token |-> token, location |-> location]

Ok(p, val) == [p |-> p, kind |-> "Ok", val |-> val]

End(p) == [p |-> p, kind |-> "End", val |-> <<>>]

Panic(p) == [p |-> p, kind |-> "Panic", val |-> <<>>]

MismatchError(p, expected, found, location) ==
    [p |-> p, kind |-> "MismatchError",
     val |-> [expected |-> expected, found |-> found, location |-> location]]

ParseError(p, description, line, position) ==
    [p |-> p, kind |-> "ParseError",
     val |-> [description |-> description, filename |-> p.filename,
              line |-> line, position |-> position]]

BINARY_OPERATORS ==
    {"And", "At", "Comma", "Divide", "Equal", "Less", "Minus", "Modulus", "More", "Not",
     "Or", "Percent", "Plus", "Star"}

is_binary_operator(symbol) == symbol \in BINARY_OPERATORS

binary_symbol_to_string(symbol) ==
    CASE symbol = "And" -> <<"&">>
      [] symbol = "At" -> <<"@">>
      [] symbol = "Comma" -> <<",">>
      [] symbol = "Divide" -> <<"/">>
      [] symbol = "Equal" -> <<"=">>
      [] symbol = "Less" -> <<"<">>
      [] symbol = "Minus" -> <<"-">>
      [] symbol = "Modulus" -> <<"\\">>
      [] symbol = "More" -> <<">">>
      [] symbol = "Not" -> <<"~">>
      [] symbol = "Or" -> <<"|">>
      [] symbol = "Percent" -> <<"%">>
      [] symbol = "Plus" -> <<"+">>
      [] symbol = "Star" -> <<"*">>

\* let v = ...; the rest of the function is the body
Let(v, body(_)) == body(v)

\* try!(r): an Err returns at once, an Ok goes on
Try(r, body(_)) == IF r.kind # "Ok" THEN r ELSE body(r)

\* the lexer's own next(): the items it has not yielded yet, then None
inner_next(lx) ==
    IF lx.rest = <<>> THEN [lx |-> lx, item |-> None]
    ELSE [lx |-> [lx EXCEPT !.rest = Tail(lx.rest)], item |-> Some(Head(lx.rest))]

\* Peekable::next
lexer_next(lx) ==
    IF lx.peeked # None THEN [lx |-> [lx EXCEPT !.peeked = None], item |-> lx.peeked]
    ELSE inner_next(lx)

\* Peekable::peek
lexer_peek(lx) ==
    IF lx.peeked # None THEN [lx |-> lx, item |-> lx.peeked]
    ELSE Let(inner_next(lx), LAMBDA r :
             [lx |-> [r.lx EXCEPT !.peeked = r.item], item |-> r.item])

RECURSIVE peek_fill(_, _)

\* a loop that gives up the items it pulled when the lexer ends
peek_fill_dropping(p, k) ==
    IF k = 0 THEN [p |-> p, ok |-> TRUE]
    ELSE Let(lexer_next(p.lexer), LAMBDA r :
             IF r.item = None THEN [p |-> [p EXCEPT !.lexer = r.lx, !.queue = <<>>], ok |-> FALSE]
             ELSE peek_fill([p EXCEPT !.lexer = r.lx, !.queue = Append(@, Unwrap(r.item)),
                                      !.longest = IF Len(p.queue) + 1 > @
                                                  THEN Len(p.queue) + 1 ELSE @],
                            k - 1))

\* the loop of peek: pull k more items into the queue
peek_fill(p, k) ==
    IF k = 0 THEN [p |-> p, ok |-> TRUE]
    ELSE Let(lexer_next(p.lexer), LAMBDA r :
             IF r.item = None THEN [p |-> [p EXCEPT !.lexer = r.lx], ok |-> FALSE]
             ELSE peek_fill([p EXCEPT !.lexer = r.lx, !.queue = Append(@, Unwrap(r.item)),
                                      !.longest = IF Len(p.queue) + 1 > @
                                                  THEN Len(p.queue) + 1 ELSE @],
                            k - 1))

\* a peek that pulls one item more than it is asked for
peek_further(p, n) ==
    Let(peek_fill(p, IF n + 1 > Len(p.queue) THEN n + 1 - Len(p.queue) ELSE 0), LAMBDA f :
        IF n <= Len(f.p.queue) THEN Ok(f.p, f.p.queue[n].token)
        ELSE End(f.p))

peek(p, n) ==
    Let(peek_fill(p, IF n > Len(p.queue) THEN n - Len(p.queue) ELSE 0), LAMBDA f :
        IF ~f.ok THEN End(f.p)
        ELSE IF n <= Len(f.p.queue) THEN Ok(f.p, f.p.queue[n].token)
        ELSE End(f.p))

RECURSIVE consume(_, _)
consume(p, n) ==
    IF n = 0 THEN Ok(p, <<>>)
    ELSE IF p.queue = <<>>
         THEN consume([p EXCEPT !.lexer = lexer_next(p.lexer).lx], n - 1)
         ELSE consume([p EXCEPT !.queue = Tail(p.queue)], n - 1)

Contains(seq, x) == \E i \in 1..Len(seq) : seq[i] = x

\* the front of the queue, or what the lexer shows next
next_item(p) ==
    IF p.queue = <<>> THEN lexer_peek(p.lexer)
    ELSE [lx |-> p.lexer, item |-> Some(Head(p.queue))]

\* the match of accept_one_of on the item n, with the parser q that looked at it
accept_result(q, n, expected) ==
    IF n = None THEN End(q)
    ELSE IF Contains(expected, Unwrap(n).token.sym)
    THEN Ok(IF q.queue = <<>> THEN [q EXCEPT !.lexer = lexer_next(q.lexer).lx]
            ELSE [q EXCEPT !.queue = Tail(q.queue)],
            Unwrap(n).token)
    ELSE MismatchError(q, expected, Unwrap(n).token.sym, Unwrap(n).location)

accept_one_of(p, expected) ==
    Let(next_item(p), LAMBDA n : accept_result([p EXCEPT !.lexer = n.lx], n.item, expected))

accept(p, expected) == accept_one_of(p, <<expected>>)

\* {:?} of a slice of symbols: "[A, B]"
RECURSIVE format_symbols_from(_, _)
format_symbols_from(symbols, i) ==
    IF i > Len(symbols) THEN ""
    ELSE (IF i > 1 THEN ", " ELSE "") \o symbols[i] \o format_symbols_from(symbols, i + 1)

format_symbols(symbols) == "[" \o format_symbols_from(symbols, 1) \o "]"

expect_one_of(p, expected) ==
    Let(accept_one_of(p, expected), LAMBDA r :
        CASE r.kind = "Ok" -> Ok(r.p, r.val.text)
          [] r.kind = "MismatchError" ->
                ParseError(r.p,
                           "Expected " \o format_symbols(r.val.expected)
                               \o ", found " \o r.val.found,
                           r.val.location[1], r.val.location[2])
          [] OTHER -> r)

expect(p, expected) == expect_one_of(p, <<expected>>)

---------------------------------------------------------------------------
(* The syntax tree (compiler/ast.rs). A map is a function from selectors.  *)

Variable(name) == [node |-> "Variable", name |-> name]

LiteralNil == [node |-> "LiteralNil"]

LiteralBoolean(b) == [node |-> "LiteralBoolean", value |-> b]

LiteralInteger(v) == [node |-> "LiteralInteger", value |-> v]

\* an f64 is kept as its sign and its decimal digits
LiteralDouble(negative, text) == [node |-> "LiteralDouble", negative |-> negative, digits |-> text]

LiteralString(text) == [node |-> "LiteralString", value |-> text]

LiteralSymbol(text) == [node |-> "LiteralSymbol", value |-> text]

Assignment(variables, value) == [node |-> "Assignment", variables |-> variables, value |-> value]

UnaryMessage(message, receiver) == [node |-> "UnaryMessage", message |-> message, receiver |-> receiver]

BinaryMessage(message, left, right) ==
    [node |-> "BinaryMessage", message |-> message, left |-> left, right |-> right]

KeywordMessage(message, receiver, parameters) ==
    [node |-> "KeywordMessage", message |-> message, receiver |-> receiver,
     parameters |-> parameters]

Block(parameters, locals, body) ==
    [node |-> "Block", parameters |-> parameters, locals |-> locals, body |-> body]

Return(expression) == [node |-> "Return", value |-> expression]

MethodPrimitive(name, parameters) == [method |-> "Primitive", name |-> name, parameters |-> parameters]

MethodNative(name, parameters, locals, body) ==
    [method |-> "Native", name |-> name, parameters |-> parameters, locals |-> locals,
     body |-> body]

Class(name, superclass, instance_methods, instance_variables, class_methods, class_variables) ==
    [name |-> name, superclass |-> superclass, instance_methods |-> instance_methods,
     instance_variables |-> instance_variables, class_methods |-> class_methods,
     class_variables |-> class_variables]

\* HashMap::new and HashMap::insert
HashMap_new == [k \in {} |-> k]

\* an insert that leaves a key it finds with the value it has
insert_absent(map, key, value) ==
    [k \in DOMAIN map \cup {key} |-> IF k \in DOMAIN map THEN map[k] ELSE value]

insert(map, key, value) == [k \in DOMAIN map \cup {key} |-> IF k = key THEN value ELSE map[k]]

---------------------------------------------------------------------------
(* Parser: the productions. A production calls another one through parse,  *)
(* the call by name, so that the operators form no cycle but through it.   *)

RECURSIVE parse(_, _, _)

\* the arms Identifier, Keyword, OperatorSequence and binary operator
starts_message(token) ==
    token.sym \in {"Identifier", "Keyword", "OperatorSequence"} \/ is_binary_operator(token.sym)

\* a parse_superclass_name that takes the token it does not want
parse_superclass_name_taking(p) ==
    Let(accept(p, "Identifier"), LAMBDA r :
        CASE r.kind = "Ok" -> Ok(r.p, Unwrap(r.val.text))
          [] r.kind = "MismatchError" -> Ok(consume(r.p, 1).p, <<"O", "b", "j", "e", "c", "t">>)
          [] OTHER -> r)

parse_superclass_name(p) ==
    Let(accept(p, "Identifier"), LAMBDA r :
        CASE r.kind = "Ok" -> Ok(r.p, Unwrap(r.val.text))
          [] r.kind = "MismatchError" -> Ok(r.p, <<"O", "b", "j", "e", "c", "t">>)
          [] OTHER -> r)

\* the loop of parse_locals
RECURSIVE parse_locals_loop(_, _)
parse_locals_loop(p, locals) ==
    Let(accept(p, "Identifier"), LAMBDA r :
        IF r.kind = "Ok" THEN parse_locals_loop(r.p, Append(locals, Unwrap(r.val.text)))
        ELSE Ok(r.p, locals))

parse_locals(p) ==
    Let(accept(p, "Or"), LAMBDA bar :
        IF bar.kind # "Ok" THEN Ok(bar.p, <<>>)
        ELSE Let(parse_locals_loop(bar.p, <<>>), LAMBDA names :
             Try(expect(names.p, "Or"), LAMBDA close :
             Ok(close.p, names.val))))

parse_unary_pattern(p) ==
    Try(expect(p, "Identifier"), LAMBDA r :
    Ok(r.p, [name |-> Unwrap(r.val), parameters |-> <<>>]))

RECURSIVE parse_keyword_pattern_loop(_, _, _)

\* a loop that keeps the first keyword for the name
parse_keyword_pattern_loop_first(p, name, parameters) ==
    Let(accept(p, "Keyword"), LAMBDA k :
        CASE k.kind = "Ok" ->
                Try(expect(k.p, "Identifier"), LAMBDA id :
                parse_keyword_pattern_loop(id.p, name, Append(parameters, Unwrap(id.val))))
          [] k.kind = "MismatchError" -> Ok(k.p, [name |-> name, parameters |-> parameters])
          [] OTHER -> k)

\* the loop of parse_keyword_pattern
parse_keyword_pattern_loop(p, name, parameters) ==
    Let(accept(p, "Keyword"), LAMBDA k :
        CASE k.kind = "Ok" ->
                Try(expect(k.p, "Identifier"), LAMBDA id :
                parse_keyword_pattern_loop(id.p, name \o Unwrap(k.val.text),
                                           Append(parameters, Unwrap(id.val))))
          [] k.kind = "MismatchError" -> Ok(k.p, [name |-> name, parameters |-> parameters])
          [] OTHER -> k)

parse_keyword_pattern(p) ==
    Try(expect(p, "Keyword"), LAMBDA k :
    Try(expect(k.p, "Identifier"), LAMBDA id :
    parse_keyword_pattern_loop(id.p, Unwrap(k.val), <<Unwrap(id.val)>>)))

parse_binary_pattern(p) ==
    Let(peek(p, 1), LAMBDA t :
        IF t.kind = "Ok" /\ (t.val.sym = "OperatorSequence" \/ is_binary_operator(t.val.sym))
        THEN Try(expect(consume(t.p, 1).p, "Identifier"), LAMBDA id :
             Ok(id.p, [name |-> IF t.val.sym = "OperatorSequence" THEN Unwrap(t.val.text)
                                ELSE binary_symbol_to_string(t.val.sym),
                       parameters |-> <<Unwrap(id.val)>>]))
        ELSE Panic(t.p))

parse_pattern(p) ==
    Let(peek(p, 1), LAMBDA t :
        IF t.kind # "Ok" THEN Panic(t.p)
        ELSE CASE t.val.sym = "Identifier" -> parse("parse_unary_pattern", t.p, <<>>)
               [] t.val.sym = "Keyword" -> parse("parse_keyword_pattern", t.p, <<>>)
               [] t.val.sym = "OperatorSequence" -> parse("parse_binary_pattern", t.p, <<>>)
               [] is_binary_operator(t.val.sym) -> parse("parse_binary_pattern", t.p, <<>>)
               [] OTHER -> Panic(t.p))

RECURSIVE parse_block_parameters_loop(_, _)

\* a loop that wants the '|' after no parameter too
parse_block_parameters_loop_closing(p, parameters) ==
    Let(peek(p, 1), LAMBDA t :
        IF t.kind = "Ok" /\ t.val = Token("Colon")
        THEN Try(expect(t.p, "Colon"), LAMBDA c :
             Try(expect(c.p, "Identifier"), LAMBDA id :
             parse_block_parameters_loop(id.p, Append(parameters, Unwrap(id.val)))))
        ELSE Try(expect(t.p, "Or"), LAMBDA bar : Ok(bar.p, parameters)))

\* the loop of parse_block_parameters
parse_block_parameters_loop(p, parameters) ==
    Let(peek(p, 1), LAMBDA t :
        IF t.kind = "Ok" /\ t.val = Token("Colon")
        THEN Try(expect(t.p, "Colon"), LAMBDA c :
             Try(expect(c.p, "Identifier"), LAMBDA id :
             parse_block_parameters_loop(id.p, Append(parameters, Unwrap(id.val)))))
        ELSE IF parameters # <<>>
             THEN Try(expect(t.p, "Or"), LAMBDA bar : Ok(bar.p, parameters))
             ELSE Ok(t.p, parameters))

parse_block_parameters(p) == parse_block_parameters_loop(p, <<>>)

RECURSIVE parse_block_body_loop(_, _)

\* a loop that takes the ')' or ']' it stops at
parse_block_body_loop_closing(p, statements) ==
    Let(peek(p, 1), LAMBDA t :
        IF t.kind = "End" THEN Ok(t.p, statements)
        ELSE IF t.kind = "Ok" /\ t.val.sym \in {"EndTerm", "EndBlock"}
        THEN Ok(consume(t.p, 1).p, statements)
        ELSE Try(IF t.val.sym = "Exit" THEN parse("parse_result", t.p, <<>>)
                 ELSE parse("parse_expression", t.p, <<>>), LAMBDA st :
             Let(accept(st.p, "Period"), LAMBDA dot :
                 IF dot.kind = "Ok"
                 THEN parse_block_body_loop(dot.p, Append(statements, st.val))
                 ELSE Ok(dot.p, Append(statements, st.val)))))

\* the loop of parse_block_body: one statement, then a '.' to go on
parse_block_body_loop(p, statements) ==
    Let(peek(p, 1), LAMBDA t :
        IF t.kind = "End" \/ (t.kind = "Ok" /\ t.val.sym \in {"EndTerm", "EndBlock"})
        THEN Ok(t.p, statements)
        ELSE Try(IF t.val.sym = "Exit" THEN parse("parse_result", t.p, <<>>)
                 ELSE parse("parse_expression", t.p, <<>>), LAMBDA st :
             Let(accept(st.p, "Period"), LAMBDA dot :
                 IF dot.kind = "Ok"
                 THEN parse_block_body_loop(dot.p, Append(statements, st.val))
                 ELSE Ok(dot.p, Append(statements, st.val)))))

parse_block_body(p) == parse_block_body_loop(p, <<>>)

parse_result(p) ==
    Try(expect(p, "Exit"), LAMBDA x :
    Try(parse("parse_expression", x.p, <<>>), LAMBDA e :
    Ok(e.p, Return(e.val))))

\* the loop of parse_assignments
RECURSIVE parse_assignments_loop(_, _)
parse_assignments_loop(p, assignments) ==
    Let(peek(p, 2), LAMBDA t :
        IF t.kind = "Ok" /\ t.val = Token("Assign")
        THEN Try(expect(t.p, "Identifier"), LAMBDA id :
             Try(expect(id.p, "Assign"), LAMBDA as :
             parse_assignments_loop(as.p, Append(assignments, Unwrap(id.val)))))
        ELSE Ok(t.p, assignments))

\* a parse_assignments that stops after one variable
parse_assignments_once(p) ==
    Let(peek(p, 2), LAMBDA t :
        IF t.kind = "Ok" /\ t.val = Token("Assign")
        THEN Try(expect(t.p, "Identifier"), LAMBDA id :
             Try(expect(id.p, "Assign"), LAMBDA as :
             Ok(as.p, <<Unwrap(id.val)>>)))
        ELSE Ok(t.p, <<>>))

parse_assignments(p) == parse_assignments_loop(p, <<>>)

\* the loop of parse_expression: messages sent to the expression so far
RECURSIVE parse_expression_loop(_, _)
parse_expression_loop(p, expression) ==
    Let(peek(p, 1), LAMBDA t :
        IF t.kind = "Ok" /\ starts_message(t.val)
        THEN Try(parse("parse_expression_messages", t.p, expression), LAMBDA m :
             parse_expression_loop(m.p, m.val))
        ELSE Ok(t.p, expression))

parse_expression(p) ==
    Let(peek(p, 2), LAMBDA t :
        IF t.kind = "Ok" /\ t.val = Token("Assign")
        THEN Try(parse("parse_assignments", t.p, <<>>), LAMBDA variables :
             Try(parse("parse_expression", variables.p, <<>>), LAMBDA value :
             Ok(value.p, Assignment(variables.val, value.val))))
        ELSE Try(parse("parse_expression_primary", t.p, <<>>), LAMBDA primary :
             parse_expression_loop(primary.p, primary.val)))

parse_expression_variable(p) ==
    Try(expect(p, "Identifier"), LAMBDA r :
    Let(Unwrap(r.val), LAMBDA variable :
        CASE variable = <<"n", "i", "l">> -> Ok(r.p, LiteralNil)
          [] variable = <<"t", "r", "u", "e">> -> Ok(r.p, LiteralBoolean(TRUE))
          [] variable = <<"f", "a", "l", "s", "e">> -> Ok(r.p, LiteralBoolean(FALSE))
          [] OTHER -> Ok(r.p, Variable(variable))))

parse_expression_string(p) ==
    Try(expect(p, "String"), LAMBDA r : Ok(r.p, LiteralString(Unwrap(r.val))))

parse_expression_symbol(p) ==
    Try(expect(p, "Pound"), LAMBDA x :
    Let(peek(x.p, 1), LAMBDA t :
        IF t.kind = "Ok" /\ t.val.sym \in {"Identifier", "String", "Keyword",
                                            "KeywordSequence", "OperatorSequence"}
        THEN Ok(consume(t.p, 1).p, LiteralSymbol(Unwrap(t.val.text)))
        ELSE IF t.kind = "Ok" /\ is_binary_operator(t.val.sym)
        THEN Ok(consume(t.p, 1).p, LiteralSymbol(binary_symbol_to_string(t.val.sym)))
        ELSE Panic(t.p)))

parse_expression_number(p, negative) ==
    Try(accept_one_of(p, <<"Integer", "Double">>), LAMBDA r :
        IF r.val.text = None THEN Panic(r.p)
        ELSE IF r.val.sym = "Integer"
        THEN Let(parse_int(Unwrap(r.val.text)), LAMBDA parsed :
                 IF parsed = None THEN Panic(r.p)
                 ELSE Ok(r.p, LiteralInteger(IF negative THEN -Unwrap(parsed)
                                             ELSE Unwrap(parsed))))
        ELSE Ok(r.p, LiteralDouble(negative, Unwrap(r.val.text))))

parse_expression_negative_number(p) ==
    Try(expect(p, "Minus"), LAMBDA m : parse("parse_expression_number", m.p, TRUE))

\* a parse_expression_primary that takes a '^' for the start of a primary
parse_expression_primary_or_result(p) ==
    Try(peek(p, 1), LAMBDA t :
        CASE t.val.sym = "Identifier" -> parse("parse_expression_variable", t.p, <<>>)
          [] t.val.sym = "String" -> parse("parse_expression_string", t.p, <<>>)
          [] t.val.sym = "Integer" -> parse("parse_expression_number", t.p, FALSE)
          [] t.val.sym = "Double" -> parse("parse_expression_number", t.p, FALSE)
          [] t.val.sym = "Pound" -> parse("parse_expression_symbol", t.p, <<>>)
          [] t.val.sym = "Minus" -> parse("parse_expression_negative_number", t.p, <<>>)
          [] t.val.sym = "NewBlock" -> parse("parse_expression_nested_block", t.p, <<>>)
          [] t.val.sym = "NewTerm" -> parse("parse_expression_nested_term", t.p, <<>>)
          [] t.val.sym = "Exit" -> parse("parse_result", t.p, <<>>)
          [] OTHER -> Panic(t.p))

parse_expression_primary(p) ==
    Try(peek(p, 1), LAMBDA t :
        CASE t.val.sym = "Identifier" -> parse("parse_expression_variable", t.p, <<>>)
          [] t.val.sym = "String" -> parse("parse_expression_string", t.p, <<>>)
          [] t.val.sym = "Integer" -> parse("parse_expression_number", t.p, FALSE)
          [] t.val.sym = "Double" -> parse("parse_expression_number", t.p, FALSE)
          [] t.val.sym = "Pound" -> parse("parse_expression_symbol", t.p, <<>>)
          [] t.val.sym = "Minus" -> parse("parse_expression_negative_number", t.p, <<>>)
          [] t.val.sym = "NewBlock" -> parse("parse_expression_nested_block", t.p, <<>>)
          [] t.val.sym = "NewTerm" -> parse("parse_expression_nested_term", t.p, <<>>)
          [] OTHER -> Panic(t.p))

parse_expression_unary_message(p, value) ==
    Try(expect(p, "Identifier"), LAMBDA r : Ok(r.p, UnaryMessage(Unwrap(r.val), value)))

\* the loop of the Identifier arm of parse_expression_messages
RECURSIVE parse_expression_unary_messages_loop(_, _)
parse_expression_unary_messages_loop(p, expression) ==
    Let(peek(p, 1), LAMBDA t :
        IF t.kind = "Ok" /\ t.val.sym = "Identifier"
        THEN Try(parse("parse_expression_unary_message", t.p, expression), LAMBDA u :
             parse_expression_unary_messages_loop(u.p, u.val))
        ELSE Ok(t.p, expression))

parse_expression_messages(p, value) ==
    Try(peek(p, 1), LAMBDA t :
        CASE t.val.sym = "Identifier" -> parse_expression_unary_messages_loop(t.p, value)
          [] t.val.sym = "Keyword" -> parse("parse_expression_keyword_message", t.p, value)
          [] t.val.sym = "OperatorSequence" ->
                 parse("parse_expression_binary_message", t.p, value)
          [] is_binary_operator(t.val.sym) ->
                 parse("parse_expression_binary_message", t.p, value)
          [] OTHER -> Panic(t.p))

parse_expression_nested_block(p) ==
    Try(expect(p, "NewBlock"), LAMBDA open :
    Try(parse("parse_block_parameters", open.p, <<>>), LAMBDA parameters :
    Try(parse("parse_locals", parameters.p, <<>>), LAMBDA locals :
    Try(parse("parse_block_body", locals.p, <<>>), LAMBDA body :
    Try(expect(body.p, "EndBlock"), LAMBDA close :
    Ok(close.p, Block(parameters.val, locals.val, body.val)))))))

parse_expression_nested_term(p) ==
    Try(expect(p, "NewTerm"), LAMBDA open :
    Try(parse("parse_expression", open.p, <<>>), LAMBDA value :
    Try(expect(value.p, "EndTerm"), LAMBDA close :
    Ok(close.p, value.val))))

RECURSIVE parse_expression_keyword_message_loop(_, _, _, _)

\* a loop that pushes the first keyword only
parse_expression_keyword_message_loop_first(p, value, message, parameters) ==
    Let(accept(p, "Keyword"), LAMBDA k :
        IF k.kind = "Ok"
        THEN Try(parse("parse_expression_formula", k.p, <<>>), LAMBDA f :
             parse_expression_keyword_message_loop(
                 f.p, value, IF message = <<>> THEN Unwrap(k.val.text) ELSE message,
                 Append(parameters, f.val)))
        ELSE Ok(k.p, KeywordMessage(message, value, parameters)))

\* the loop of parse_expression_keyword_message
parse_expression_keyword_message_loop(p, value, message, parameters) ==
    Let(accept(p, "Keyword"), LAMBDA k :
        IF k.kind = "Ok"
        THEN Try(parse("parse_expression_formula", k.p, <<>>), LAMBDA f :
             parse_expression_keyword_message_loop(
                 f.p, value, message \o Unwrap(k.val.text), Append(parameters, f.val)))
        ELSE Ok(k.p, KeywordMessage(message, value, parameters)))

parse_expression_keyword_message(p, value) ==
    parse_expression_keyword_message_loop(p, value, <<>>, <<>>)

\* the loop of parse_expression_formula
RECURSIVE parse_expression_formula_loop(_, _)
parse_expression_formula_loop(p, value) ==
    Let(peek(p, 1), LAMBDA t :
        IF t.kind = "Ok" /\ (is_binary_operator(t.val.sym) \/ t.val.sym = "OperatorSequence")
        THEN Try(parse("parse_expression_binary_message", t.p, value), LAMBDA m :
             parse_expression_formula_loop(m.p, m.val))
        ELSE Ok(t.p, value))

parse_expression_formula(p) ==
    Try(parse("parse_expression_binary_operand", p, <<>>), LAMBDA operand :
    parse_expression_formula_loop(operand.p, operand.val))

\* the loop of parse_expression_binary_operand
RECURSIVE parse_expression_binary_operand_loop(_, _)
parse_expression_binary_operand_loop(p, value) ==
    Let(peek(p, 1), LAMBDA t :
        IF t.kind = "Ok" /\ t.val.sym = "Identifier"
        THEN Try(parse("parse_expression_unary_message", t.p, value), LAMBDA u :
             parse_expression_binary_operand_loop(u.p, u.val))
        ELSE Ok(t.p, value))

parse_expression_binary_operand(p) ==
    Try(parse("parse_expression_primary", p, <<>>), LAMBDA primary :
    parse_expression_binary_operand_loop(primary.p, primary.val))

\* a parse_expression_binary_message whose right operand is a primary alone
parse_expression_binary_message_primary(p, value) ==
    Try(peek(p, 1), LAMBDA t :
        IF ~(is_binary_operator(t.val.sym) \/ t.val.sym = "OperatorSequence") THEN Panic(t.p)
        ELSE Try(parse("parse_expression_primary", consume(t.p, 1).p, <<>>), LAMBDA right :
             Ok(right.p, BinaryMessage(IF is_binary_operator(t.val.sym)
                                       THEN binary_symbol_to_string(t.val.sym)
                                       ELSE Unwrap(t.val.text),
                                       value, right.val))))

\* a parse_expression_binary_message whose right operand is a whole formula
parse_expression_binary_message_formula(p, value) ==
    Try(peek(p, 1), LAMBDA t :
        IF ~(is_binary_operator(t.val.sym) \/ t.val.sym = "OperatorSequence") THEN Panic(t.p)
        ELSE Try(parse("parse_expression_formula", consume(t.p, 1).p, <<>>), LAMBDA right :
             Ok(right.p, BinaryMessage(IF is_binary_operator(t.val.sym)
                                       THEN binary_symbol_to_string(t.val.sym)
                                       ELSE Unwrap(t.val.text),
                                       value, right.val))))

parse_expression_binary_message(p, value) ==
    Try(peek(p, 1), LAMBDA t :
        IF ~(is_binary_operator(t.val.sym) \/ t.val.sym = "OperatorSequence") THEN Panic(t.p)
        ELSE Try(parse("parse_expression_binary_operand", consume(t.p, 1).p, <<>>),
                 LAMBDA right :
             Ok(right.p, BinaryMessage(IF is_binary_operator(t.val.sym)
                                       THEN binary_symbol_to_string(t.val.sym)
                                       ELSE Unwrap(t.val.text),
                                       value, right.val))))

\* the arm of parse_method after "= primitive" was not found
parse_method_native(p, pattern) ==
    Try(expect(p, "NewTerm"), LAMBDA open :
    Try(parse("parse_locals", open.p, <<>>), LAMBDA locals :
    Try(parse("parse_block_body", locals.p, <<>>), LAMBDA body :
    Try(expect(body.p, "EndTerm"), LAMBDA close :
    Ok(close.p, [name |-> pattern.name,
                 method |-> MethodNative(pattern.name, pattern.parameters,
                                         locals.val, body.val)])))))

parse_method(p) ==
    Try(parse("parse_pattern", p, <<>>), LAMBDA pattern :
    Try(expect(pattern.p, "Equal"), LAMBDA eq :
    Let(accept(eq.p, "Primitive"), LAMBDA prim :
        IF prim.kind = "Ok"
        THEN Ok(prim.p, [name |-> pattern.val.name,
                         method |-> MethodPrimitive(pattern.val.name,
                                                    pattern.val.parameters)])
        ELSE parse_method_native(prim.p, pattern.val))))

\* the two method loops of parse_class
RECURSIVE parse_methods_loop(_, _)
parse_methods_loop(p, methods) ==
    Try(peek(p, 1), LAMBDA t :
        IF starts_message(t.val)
        THEN Try(parse("parse_method", t.p, <<>>), LAMBDA m :
             parse_methods_loop(m.p, insert(methods, m.val.name, m.val.method)))
        ELSE Ok(t.p, methods))

\* the class side of parse_class: what follows the separator, if there is one
parse_class_side(p) ==
    Let(accept(p, "Separator"), LAMBDA sep :
        IF sep.kind # "Ok" THEN Ok(sep.p, [variables |-> <<>>, methods |-> HashMap_new])
        ELSE Try(parse("parse_locals", sep.p, <<>>), LAMBDA class_variables :
             Try(parse_methods_loop(class_variables.p, HashMap_new), LAMBDA class_methods :
             Ok(class_methods.p, [variables |-> class_variables.val,
                                  methods |-> class_methods.val]))))

parse_class(p) ==
    Try(expect(p, "Identifier"), LAMBDA name :
    Try(expect(name.p, "Equal"), LAMBDA eq :
    Try(parse("parse_superclass_name", eq.p, <<>>), LAMBDA superclass :
    Try(expect(superclass.p, "NewTerm"), LAMBDA open :
    Try(parse("parse_locals", open.p, <<>>), LAMBDA instance_variables :
    Try(parse_methods_loop(instance_variables.p, HashMap_new), LAMBDA instance_methods :
    Try(parse_class_side(instance_methods.p), LAMBDA class :
    Try(expect(class.p, "EndTerm"), LAMBDA close :
    Ok(close.p,
       Class(Unwrap(name.val), superclass.val, instance_methods.val,
             instance_variables.val, class.val.methods, class.val.variables))))))))))

\* the call of a production by its name
parse(production, p, value) ==
    CASE production = "parse_class" -> parse_class(p)
      [] production = "parse_superclass_name" -> parse_superclass_name(p)
      [] production = "parse_locals" -> parse_locals(p)
      [] production = "parse_unary_pattern" -> parse_unary_pattern(p)
      [] production = "parse_keyword_pattern" -> parse_keyword_pattern(p)
      [] production = "parse_binary_pattern" -> parse_binary_pattern(p)
      [] production = "parse_pattern" -> parse_pattern(p)
      [] production = "parse_block_parameters" -> parse_block_parameters(p)
      [] production = "parse_block_body" -> parse_block_body(p)
      [] production = "parse_result" -> parse_result(p)
      [] production = "parse_assignments" -> parse_assignments(p)
      [] production = "parse_expression" -> parse_expression(p)
      [] production = "parse_expression_variable" -> parse_expression_variable(p)
      [] production = "parse_expression_string" -> parse_expression_string(p)
      [] production = "parse_expression_symbol" -> parse_expression_symbol(p)
      [] production = "parse_expression_negative_number" -> parse_expression_negative_number(p)
      [] production = "parse_expression_primary" -> parse_expression_primary(p)
      [] production = "parse_expression_nested_block" -> parse_expression_nested_block(p)
      [] production = "parse_expression_nested_term" -> parse_expression_nested_term(p)
      [] production = "parse_expression_formula" -> parse_expression_formula(p)
      [] production = "parse_expression_binary_operand" -> parse_expression_binary_operand(p)
      [] production = "parse_method" -> parse_method(p)
      [] production = "parse_expression_number" -> parse_expression_number(p, value)
      [] production = "parse_expression_unary_message" -> parse_expression_unary_message(p, value)
      [] production = "parse_expression_messages" -> parse_expression_messages(p, value)
      [] production = "parse_expression_keyword_message" -> parse_expression_keyword_message(p, value)
      [] production = "parse_expression_binary_message" -> parse_expression_binary_message(p, value)

---------------------------------------------------------------------------
(* The parser as a state machine. Parser::new is given the items its lexer *)
(* will yield; then its methods are called, as the tests of parser.rs call *)
(* them, each on the state the previous call left. A call records the      *)
(* method, its argument, the parser before it and what it returned. After  *)
(* a panic the parser is gone.                                             *)

\* longest token sequence given to parse_class
MaxClassTokens == 5

Self == [lexer |-> lexer, queue |-> queue, filename |-> filename, longest |-> Len(queue)]

\* the items not consumed yet: the queue, the peeked item, the lexer's rest
Remaining(p) == p.queue \o p.lexer.peeked \o p.lexer.rest

Returns(op, arg, r) ==
    /\ call.kind # "Panic"
    /\ lexer' = r.p.lexer
    /\ queue' = r.p.queue
    /\ call' = [op |-> op, arg |-> arg, before |-> Self, kind |-> r.kind, val |-> r.val,
                longest |-> r.p.longest]
    /\ UNCHANGED <<filename, input, lexerVars>>

\* the length of a token's lexeme
LexemeLen(token) ==
    CASE token.sym = "String" -> Len(Unwrap(token.text)) + 2
      [] token.text # None -> Len(Unwrap(token.text))
      [] token.sym = "Assign" -> 2
      [] token.sym = "Separator" -> 4
      [] token.sym = "Primitive" -> 9
      [] OTHER -> 1

\* the items of a source that holds the tokens on one line, one space apart
RECURSIVE LocatedFrom(_, _)
LocatedFrom(tokens, column) ==
    IF tokens = <<>> THEN <<>>
    ELSE <<Item(Head(tokens), <<1, column>>)>>
             \o LocatedFrom(Tail(tokens), column + LexemeLen(Head(tokens)) + 1)

Located(tokens) == LocatedFrom(tokens, 1)

InitParser(inputs) ==
    /\ input \in inputs
    /\ lexer = [rest |-> input, peeked |-> None]
    /\ queue = <<>>
    /\ filename = "test"
    /\ call = NewCall(Parser_new(input, "test"))
    /\ source0 = <<>>
    /\ buffer = PeekableBuffer_new(<<>>)
    /\ emitted = <<>>
    /\ status = "Init"

Peek(n) == Returns("peek", n, peek(Self, n))

Consume(n) == Returns("consume", n, consume(Self, n))

Accept(symbol) == Returns("accept", symbol, accept(Self, symbol))

Expect(symbol) == Returns("expect", symbol, expect(Self, symbol))

ParseSuperclassName == Returns("parse_superclass_name", <<>>, parse_superclass_name(Self))

ParseClass == Returns("parse_class", <<>>, parse_class(Self))

TkId(c) == TokenText("Identifier", <<c>>)

ClassTokens ==
    {TkId("a"), Token("Equal"), Token("NewTerm"), Token("EndTerm"), Token("Separator")}

ClassInputs == {Located(t) : t \in SeqsUpTo(ClassTokens, MaxClassTokens)}

InitClass == InitParser(ClassInputs)

NextClass ==
    \/ ParseClass
    \/ ParseSuperclassName
    \/ Peek(1)
    \/ \E symbol \in {"Identifier", "Equal", "NewTerm"} : Expect(symbol)

SpecClass == InitClass /\ [][NextClass]_vars

---------------------------------------------------------------------------
(* util::PeekableBuffer (util/peekable_buffer.rs): the line buffer that    *)
(* tracks locations. source is the text the reader has not delivered yet,  *)
(* buffer the line read last, position the index of the next character of  *)
(* that line, peeked the character looked at with the location it has.     *)

Location(line, position) == <<line, position>>

util_PeekableBuffer_new(source) ==
    [source |-> source, buffer |-> <<>>, line |-> 0, position |-> 0, peeked |-> None]

\* BufRead::read_line: the length of the next line, its '\n' included
RECURSIVE read_line_len(_, _)
read_line_len(source, i) ==
    IF i > Len(source) THEN Len(source)
    ELSE IF source[i] = "\n" THEN i
    ELSE read_line_len(source, i + 1)

\* char::len_utf8: the bytes of a character; of those of the model only 'é'
\* is not ASCII
len_utf8(c) == IF c = "é" THEN 2 ELSE 1

\* String::len: the length of a text in bytes
RECURSIVE len(_)
len(text) == IF text = <<>> THEN 0 ELSE len_utf8(Head(text)) + len(Tail(text))

\* a read from memory never fails: fill_buffer answers None. position counts
\* characters (chars().nth(position) in next), buffer.len() counts bytes
fill_buffer(b) ==
    IF b.position >= len(b.buffer)
    THEN Let(read_line_len(b.source, 1), LAMBDA n :
             [b EXCEPT !.line = @ + 1, !.position = 0,
                       !.buffer = SubSeq(b.source, 1, n),
                       !.source = SubSeq(b.source, n + 1, Len(b.source))])
    ELSE b

\* Iterator::next after fill_buffer
next_filled(b) ==
    IF b.peeked # None
    THEN [b |-> [b EXCEPT !.peeked = None], c |-> Some(Unwrap(b.peeked)[1])]
    ELSE [b |-> [b EXCEPT !.position = @ + 1],
          c |-> IF b.position + 1 <= Len(b.buffer) THEN Some(b.buffer[b.position + 1])
                ELSE None]

util_next(b) == next_filled(fill_buffer(b))

\* a location that counts the columns from 0
util_location_from_zero(b) ==
    IF b.peeked # None THEN Unwrap(b.peeked)[2]
    ELSE Location(b.line, b.position)

util_location(b) ==
    IF b.peeked # None THEN Unwrap(b.peeked)[2]
    ELSE Location(b.line, b.position + 1)

\* a peek that takes the character without keeping it
peek_taking(b) == Let(util_next(b), LAMBDA r : [b |-> r.b, c |-> r.c])

\* peek after fill_buffer
peek_filled(b) ==
    IF b.peeked = None
    THEN Let(util_next(b), LAMBDA r :
             [b |-> [r.b EXCEPT !.peeked = IF r.c = None THEN None
                                           ELSE Some(<<Unwrap(r.c), util_location(b)>>)],
              c |-> r.c])
    ELSE [b |-> b, c |-> Some(Unwrap(b.peeked)[1])]

util_peek(b) == peek_filled(fill_buffer(b))

util_consume(b) ==
    IF b.peeked # None THEN [b EXCEPT !.peeked = None] ELSE util_next(b).b

---------------------------------------------------------------------------
(* The lexer between the line buffer and the parser: it skips the white    *)
(* space between tokens and yields each token with the location of the     *)
(* first character of its lexeme. Here it knows identifiers and '('.       *)

RECURSIVE lexer_skip_whitespace(_)
lexer_skip_whitespace(b) ==
    Let(util_peek(b), LAMBDA r :
        IF r.c # None /\ is_whitespace(Unwrap(r.c))
        THEN lexer_skip_whitespace(util_consume(r.b))
        ELSE r.b)

RECURSIVE lexer_identifier(_, _)
lexer_identifier(b, text) ==
    Let(util_peek(b), LAMBDA r :
        IF r.c # None /\ is_letter(Unwrap(r.c))
        THEN lexer_identifier(util_consume(r.b), Append(text, Unwrap(r.c)))
        ELSE [b |-> r.b, token |-> TokenText("Identifier", text)])

\* the token that starts with the character peeked at
lexer_token(b, c) ==
    IF is_letter(c) THEN lexer_identifier(b, <<>>)
    ELSE [b |-> util_consume(b), token |-> Token("NewTerm")]

lexer_read_item(b) ==
    Let(lexer_skip_whitespace(b), LAMBDA s :
    Let(util_peek(s), LAMBDA r :
        IF r.c = None THEN [b |-> r.b, item |-> None]
        ELSE Let(lexer_token(r.b, Unwrap(r.c)), LAMBDA t :
                 [b |-> t.b, item |-> Some(Item(t.token, util_location(r.b)))])))

\* the items the lexer yields until its first None
RECURSIVE lexer_items(_)
lexer_items(b) ==
    Let(lexer_read_item(b), LAMBDA r :
        IF r.item = None THEN <<>> ELSE r.item \o lexer_items(r.b))

---------------------------------------------------------------------------
(* The parser over a source text: Parser::new(source, "test"), then expect *)
(* and expect_one_of.                                                      *)

\* longest source text
MaxText == 5

TextChars == {" ", "\n", "W", "("}

Texts == SeqsUpTo(TextChars, MaxText)

InitText ==
    /\ source0 \in Texts
    /\ input = lexer_items(util_PeekableBuffer_new(source0))
    /\ lexer = [rest |-> input, peeked |-> None]
    /\ queue = <<>>
    /\ filename = "test"
    /\ call = NewCall(Parser_new(input, "test"))
    /\ buffer = PeekableBuffer_new(<<>>)
    /\ emitted = <<>>
    /\ status = "Init"

ExpectOneOf(expected) == Returns("expect_one_of", expected, expect_one_of(Self, expected))

NextText ==
    \/ \E symbol \in {"Double", "Identifier", "NewTerm"} : Expect(symbol)
    \/ \E expected \in {<<"Integer", "Double">>, <<"NewTerm", "Identifier">>} :
           ExpectOneOf(expected)

SpecText == InitText /\ [][NextText]_vars

---------------------------------------------------------------------------
(* The parser over expressions: Parser::new, then parse_expression and the *)
(* productions below it, as the tests of parser.rs call them.              *)

\* longest token sequence given to the expression productions
MaxExpressionTokens == 5

TkInt(text) == TokenText("Integer", text)

\* the Keyword token the lexer makes of "k:"
TkKeyword == read_token(PeekableBuffer_new(<<"k", ":">>)).token

ParseExpression == Returns("parse_expression", <<>>, parse_expression(Self))

ParseExpressionFormula ==
    Returns("parse_expression_formula", <<>>, parse_expression_formula(Self))

ParseExpressionPrimary ==
    Returns("parse_expression_primary", <<>>, parse_expression_primary(Self))

ParseAssignments == Returns("parse_assignments", <<>>, parse_assignments(Self))

ExpressionTokens ==
    {TkId("a"), TkId("b"), TkInt(<<"1">>), Token("Plus"), Token("Minus"), TkKeyword}

ExpressionInputs == {Located(t) : t \in SeqsUpTo(ExpressionTokens, MaxExpressionTokens)}

InitExpression == InitParser(ExpressionInputs)

NextExpression ==
    \/ ParseExpression
    \/ ParseExpressionFormula

SpecExpression == InitExpression /\ [][NextExpression]_vars

---------------------------------------------------------------------------
(* The parser over assignments: a run of "variable :=" and a tail.         *)

\* most variables an input assigns to before its tail
MaxVariables == 2

\* longest tail of an assignment
MaxTail == 5

\* v1 := v2 := ... := vn :=
RECURSIVE AssignTo(_)
AssignTo(variables) ==
    IF variables = <<>> THEN <<>>
    ELSE <<TkId(Head(variables)), Token("Assign")>> \o AssignTo(Tail(variables))

TailTokens == {TkId("a"), Token("Assign"), Token("NewTerm"), Token("EndTerm")}

AssignmentInputs ==
    {Located(AssignTo(v) \o t) : v \in SeqsUpTo({"a", "b"}, MaxVariables),
                                 t \in SeqsUpTo(TailTokens, MaxTail)}

InitAssignment == InitParser(AssignmentInputs)

NextAssignment ==
    \/ ParseExpression
    \/ ParseAssignments

SpecAssignment == InitAssignment /\ [][NextAssignment]_vars

---------------------------------------------------------------------------
(* The parser over number literals.                                        *)

\* longest token sequence of number literals
MaxNumberTokens == 3

NumberTokens ==
    {TkInt(<<"1">>), TkInt(<<"1", "2", "7">>), TkInt(<<"1", "2", "9">>),
     TkInt(<<"2", "0", "0">>), Token("Minus"), Token("Plus")}

NumberInputs == {Located(t) : t \in SeqsUpTo(NumberTokens, MaxNumberTokens)}

InitNumber == InitParser(NumberInputs)

NextNumber ==
    \/ ParseExpression
    \/ ParseExpressionPrimary

SpecNumber == InitNumber /\ [][NextNumber]_vars

---------------------------------------------------------------------------
(* The same lexer over two further alphabets: quotes and a character that  *)
(* starts no token, and digits with the period.                            *)

InitLexerOver(chars) ==
    /\ source0 \in SeqsUpTo(chars, MaxSource)
    /\ buffer = PeekableBuffer_new(source0)
    /\ emitted = <<>>
    /\ status = "Init"
    /\ ParserIdle

QuoteChars == {"?", "'", "a", " "}

InitQuote == InitLexerOver(QuoteChars)

SpecQuote == InitQuote /\ [][NextLexer]_vars

DecimalChars == {"1", "2", ".", "a"}

InitDecimal == InitLexerOver(DecimalChars)

SpecDecimal == InitDecimal /\ [][NextLexer]_vars

---------------------------------------------------------------------------
(* The parser over statements: Parser::new, then parse_block_body or       *)
(* parse_expression, over returns, blocks, a binary operator and an        *)
(* assignment.                                                             *)

\* longest token sequence given to the statement productions
MaxResultTokens == 5

ParseBlockBody == Returns("parse_block_body", <<>>, parse_block_body(Self))

ResultTokens ==
    {TkId("a"), Token("Exit"), Token("Period"), Token("NewBlock"), Token("EndBlock"),
     Token("Plus"), Token("Assign")}

ResultInputs == {Located(t) : t \in SeqsUpTo(ResultTokens, MaxResultTokens)}

InitResult == InitParser(ResultInputs)

NextResult ==
    \/ ParseBlockBody
    \/ ParseExpression

SpecResult == InitResult /\ [][NextResult]_vars

---------------------------------------------------------------------------
(* util::PeekableBuffer as a state machine: PeekableBuffer::new over a     *)
(* text, then next, peek, consume and location in any order. The log keeps *)
(* the calls that read, each with the character it answered.               *)

\* longest text the line buffer reads
MaxLines == 4

\* most reading calls made on one buffer
MaxReads == 5

LineChars == {"a", "b", "\n"}

InitBuffer ==
    /\ source0 \in SeqsUpTo(LineChars, MaxLines)
    /\ buffer = util_PeekableBuffer_new(source0)
    /\ emitted = <<>>
    /\ status = "Init"
    /\ ParserIdle

\* a call on the buffer returns val and leaves the buffer b
BufferReturns(op, b, val) ==
    /\ buffer' = b
    /\ call' = [op |-> op, arg |-> <<>>, before |-> buffer, kind |-> "Ok", val |-> val,
                longest |-> 0]
    /\ emitted' = IF op = "location" THEN emitted ELSE Append(emitted, [op |-> op, c |-> val])
    /\ UNCHANGED <<source0, status, lexer, queue, filename, input>>

BufferNext ==
    /\ Len(emitted) < MaxReads
    /\ BufferReturns("next", util_next(buffer).b, util_next(buffer).c)

BufferPeek ==
    /\ Len(emitted) < MaxReads
    /\ BufferReturns("peek", util_peek(buffer).b, util_peek(buffer).c)

BufferConsume ==
    /\ Len(emitted) < MaxReads
    /\ BufferReturns("consume", util_consume(buffer), None)

BufferLocation == BufferReturns("location", buffer, util_location(buffer))

NextBuffer ==
    \/ BufferNext
    \/ BufferPeek
    \/ BufferConsume
    \/ BufferLocation

SpecBuffer == InitBuffer /\ [][NextBuffer]_vars

---------------------------------------------------------------------------
(* The printed form of a class: format!("{:#?}", class) with the derived   *)
(* Debug of ast::Class. A HashMap prints its entries in the order its      *)
(* iterator visits them, which its randomly seeded hasher decides anew for *)
(* every map: any order of the keys can come out.                          *)

\* most methods on one side of a class
MaxMethods == 2

\* most times one class is printed
MaxRuns == 2

\* the orders in which the keys of a map can be visited
iter(map) ==
    {order \in [1..Cardinality(DOMAIN map) -> DOMAIN map] :
        \A key \in DOMAIN map : \E i \in DOMAIN order : order[i] = key}

\* Debug of a HashMap visited in an order: its entries, key and value
fmt_HashMap(map, order) == [i \in DOMAIN order |-> <<order[i], map[order[i]]>>]

\* Debug of a Class: its fields in the order of the declaration
fmt_Class(class, instance_order, class_order) ==
    [name |-> class.name, superclass |-> class.superclass,
     instance_methods |-> fmt_HashMap(class.instance_methods, instance_order),
     instance_variables |-> class.instance_variables,
     class_methods |-> fmt_HashMap(class.class_methods, class_order),
     class_variables |-> class.class_variables]

\* name = primitive, for each name
RECURSIVE PrimitiveMethods(_)
PrimitiveMethods(names) ==
    IF names = <<>> THEN <<>>
    ELSE <<TkId(Head(names)), Token("Equal"), Token("Primitive")>>
             \o PrimitiveMethods(Tail(names))

\* a = ( methods ---- methods )
PrintInputs ==
    {Located(<<TkId("a"), Token("Equal"), Token("NewTerm")>> \o PrimitiveMethods(i)
                 \o <<Token("Separator")>> \o PrimitiveMethods(c) \o <<Token("EndTerm")>>) :
        i \in SeqsUpTo({"a", "b", "f"}, MaxMethods), c \in SeqsUpTo({"a", "b"}, MaxMethods)}

InitPrint == InitParser(PrintInputs)

\* one run of the test's format! over the class parse_class returned
Format ==
    /\ call.op = "parse_class"
    /\ call.kind = "Ok"
    /\ Len(emitted) < MaxRuns
    /\ \E instance_order \in iter(call.val.instance_methods),
          class_order \in iter(call.val.class_methods) :
           emitted' = Append(emitted, fmt_Class(call.val, instance_order, class_order))
    /\ UNCHANGED <<buffer, status, source0, parserVars>>

NextPrint ==
    \/ ParseClass
    \/ Format

SpecPrint == InitPrint /\ [][NextPrint]_vars

---------------------------------------------------------------------------
(* The parser over methods: Parser::new, then parse_method. The inputs are *)
(* any pattern tokens before a few endings, and a few patterns before any  *)
(* tokens of a method's end.                                               *)

\* longest run of pattern tokens
MaxPattern == 4

\* longest run of tokens after the '=' of a method
MaxMethodEnd == 5

\* a Keyword token with its text, as the lexer makes it of the letter and ':'
TkKeywordOf(c) == read_token(PeekableBuffer_new(<<c, ":">>)).token

ParseMethod == Returns("parse_method", <<>>, parse_method(Self))

PatternTokens == {TkId("a"), TkKeywordOf("k"), TkKeywordOf("f"), Token("Plus")}

MethodEnds ==
    {<<Token("Equal"), Token("Primitive")>>,
     <<Token("Equal"), Token("NewTerm"), Token("EndTerm")>>,
     <<Token("Equal"), Token("NewTerm"), TkId("a"), Token("EndTerm")>>,
     <<Token("Equal"), TkId("a")>>,
     <<Token("Primitive")>>}

Patterns == {<<TkId("a")>>, <<TkKeywordOf("k"), TkId("a")>>, <<Token("Plus"), TkId("a")>>}

MethodEndTokens ==
    {Token("Primitive"), Token("NewTerm"), Token("EndTerm"), TkId("a"), Token("Or")}

MethodInputs ==
    {Located(p \o e) : p \in SeqsUpTo(PatternTokens, MaxPattern), e \in MethodEnds}
        \cup {Located(p \o <<Token("Equal")>> \o e) :
                 p \in Patterns, e \in SeqsUpTo(MethodEndTokens, MaxMethodEnd)}

InitMethod == InitParser(MethodInputs)

NextMethod == ParseMethod

SpecMethod == InitMethod /\ [][NextMethod]_vars

---------------------------------------------------------------------------
(* The parser over blocks: Parser::new, then parse_block_parameters or     *)
(* parse_expression_nested_block.                                          *)

\* longest token sequence given to the block productions
MaxBlockTokens == 5

ParseBlockParameters ==
    Returns("parse_block_parameters", <<>>, parse_block_parameters(Self))

ParseExpressionNestedBlock ==
    Returns("parse_expression_nested_block", <<>>, parse_expression_nested_block(Self))

BlockTokens ==
    {Token("NewBlock"), Token("Colon"), TkId("a"), TkId("b"), Token("Or"), Token("EndBlock")}

BlockInputs == {Located(t) : t \in SeqsUpTo(BlockTokens, MaxBlockTokens)}

InitBlock == InitParser(BlockInputs)

NextBlock ==
    \/ ParseBlockParameters
    \/ ParseExpressionNestedBlock

SpecBlock == InitBlock /\ [][NextBlock]_vars

---------------------------------------------------------------------------
(* The parser over bodies: Parser::new, then parse_block_body over          *)
(* statements of identifiers, returns, '.', and the ')' and ']' that end   *)
(* a body.                                                                 *)

\* longest token sequence of a body
MaxBodyTokens == 5

BodyTokens ==
    {TkId("a"), TkId("b"), Token("Exit"), Token("Period"), Token("EndBlock"),
     Token("EndTerm")}

BodyInputs == {Located(t) : t \in SeqsUpTo(BodyTokens, MaxBodyTokens)}

InitBody == InitParser(BodyInputs)

NextBody == ParseBlockBody

SpecBody == InitBody /\ [][NextBody]_vars

---------------------------------------------------------------------------
(* The same lexer over letters and colons.                                 *)

KeywordChars == {"a", "k", ":", " "}

InitKeyword == InitLexerOver(KeywordChars)

SpecKeyword == InitKeyword /\ [][NextLexer]_vars

---------------------------------------------------------------------------
(* The parser's token primitives: Parser::new, then peek, consume, accept  *)
(* and expect in any order.                                                *)

\* longest token sequence given to the primitives
MaxQueueTokens == 4

\* farthest token peek is asked for
MaxPeek == 3

QueueTokens == {TkId("a"), TkId("b"), Token("Equal")}

QueueInputs == {Located(t) : t \in SeqsUpTo(QueueTokens, MaxQueueTokens)}

InitQueue == InitParser(QueueInputs)

NextQueue ==
    \/ \E n \in 1..MaxPeek : Peek(n)
    \/ \E n \in 1..2 : Consume(n)
    \/ \E symbol \in {"Identifier", "Equal"} : Accept(symbol)
    \/ \E symbol \in {"Identifier", "Equal"} : Expect(symbol)

SpecQueue == InitQueue /\ [][NextQueue]_vars

---------------------------------------------------------------------------
(* compiler::PeekableBuffer as a state machine: PeekableBuffer::new over a *)
(* source, then peek_char, peek_peek_char and read_char in any order. The  *)
(* log keeps each call with the character it answered, None for Err.       *)

\* longest source the buffer reads
MaxUnread == 3

\* most calls made on one buffer
MaxLooks == 4

InitLook ==
    /\ source0 \in SeqsUpTo({"a", "b"}, MaxUnread)
    /\ buffer = PeekableBuffer_new(source0)
    /\ emitted = <<>>
    /\ status = "Init"
    /\ ParserIdle

\* a call on the buffer answers r
Looks(op, r) ==
    /\ Len(emitted) < MaxLooks
    /\ buffer' = r.b
    /\ emitted' = Append(emitted, [op |-> op, c |-> IF r.ok THEN Some(r.c) ELSE None])
    /\ UNCHANGED <<source0, status, parserVars>>

PeekChar == Looks("peek_char", peek_char(buffer))

PeekPeekChar == Looks("peek_peek_char", peek_peek_char(buffer))

ReadChar == Looks("read_char", read_char(buffer))

NextLook ==
    \/ PeekChar
    \/ PeekPeekChar
    \/ ReadChar

SpecLook == InitLook /\ [][NextLook]_vars

---------------------------------------------------------------------------
(* The lexer over comments: the double quote, a letter and a blank.        *)

CommentChars == {"\"", "a", " "}

InitComment == InitLexerOver(CommentChars)

SpecComment == InitComment /\ [][NextLexer]_vars

---------------------------------------------------------------------------
(* The line buffer read to its end with next alone, over texts that hold a *)
(* character of two bytes.                                                 *)

WideChars == {"a", "é", "\n"}

InitWide ==
    /\ source0 \in SeqsUpTo(WideChars, MaxLines)
    /\ buffer = util_PeekableBuffer_new(source0)
    /\ emitted = <<>>
    /\ status = "Init"
    /\ ParserIdle

NextWide == BufferNext

SpecWide == InitWide /\ [][NextWide]_vars

---------------------------------------------------------------------------
(* The parser over the members of a class: Parser::new, then parse_class.  *)
(* A side is a list of variables or none, then methods, each a primitive   *)
(* or an empty native one, a selector more than once among them; the class *)
(* side with its separator is there or not.                                *)

\* the methods a side is made of
MemberMethods ==
    {<<TkId("a"), Token("Equal"), Token("Primitive")>>,
     <<TkId("a"), Token("Equal"), Token("NewTerm"), Token("EndTerm")>>,
     <<TkId("b"), Token("Equal"), Token("Primitive")>>}

MemberVariables == {<<>>, <<Token("Or"), TkId("a"), Token("Or")>>,
                    <<Token("Or"), TkId("b"), TkId("a"), Token("Or")>>}

RECURSIVE Concat(_)
Concat(texts) == IF texts = <<>> THEN <<>> ELSE Head(texts) \o Concat(Tail(texts))

MemberSides ==
    {variables \o Concat(methods) :
        variables \in MemberVariables, methods \in SeqsUpTo(MemberMethods, MaxMethods)}

\* a = ( side ) and a = ( side ---- side )
MemberInputs ==
    {Located(<<TkId("a"), Token("Equal"), Token("NewTerm")>> \o i \o c \o <<Token("EndTerm")>>) :
        i \in MemberSides, c \in {<<>>} \cup {<<Token("Separator")>> \o s : s \in MemberSides}}

InitMembers == InitParser(MemberInputs)

NextMembers == ParseClass

SpecMembers == InitMembers /\ [][NextMembers]_vars

---------------------------------------------------------------------------
(* C1: a maximal run of n '-' characters at the start of the source is     *)
(* lexed as one Minus for n = 1, two for n = 2, three for n = 3, and as a  *)
(* single Separator for every n >= 4.                                      *)

RECURSIVE LeadingDashes(_)
LeadingDashes(s) == IF s # <<>> /\ Head(s) = "-" THEN 1 + LeadingDashes(Tail(s)) ELSE 0

ExpectedForRun(n) == IF n >= 4 THEN <<Token("Separator")>> ELSE [i \in 1..n |-> Token("Minus")]

C1_MinusRun ==
    LET expected == ExpectedForRun(LeadingDashes(source0))
    IN  /\ \A i \in 1..Len(expected) : i <= Len(emitted) => emitted[i] = expected[i]
        /\ status = "Eof" => Len(emitted) >= Len(expected)

---------------------------------------------------------------------------
(* C2: every error parse_class returns to its caller is a ParseError:      *)
(* neither MismatchError nor End escapes it.                               *)

C2_OnlyParseErrors ==
    (call.op = "parse_class" /\ call.kind \notin {"Ok", "Panic"}) => call.kind = "ParseError"

---------------------------------------------------------------------------
(* C3: whenever parse_class returns Ok, no token of the input remains      *)
(* after the ')' that closes the class.                                    *)

C3_ConsumesEntireInput ==
    (call.op = "parse_class" /\ call.kind = "Ok") => Remaining(Self) = <<>>

---------------------------------------------------------------------------
(* C4: when the next token is not an Identifier, parse_superclass_name     *)
(* answers "Object" and consumes nothing, so that the expect that follows  *)
(* sees that same token; when it is an Identifier, the answer is its text  *)
(* and exactly that one token is consumed. parse_class stores the answer   *)
(* as the superclass of the class.                                         *)

Object == <<"O", "b", "j", "e", "c", "t">>

\* the superclass a class header names: the token after the '='
SuperclassOf(items) ==
    IF items[3].token.sym = "Identifier" THEN Unwrap(items[3].token.text) ELSE Object

C4_SuperclassName ==
    /\ (call.op = "parse_superclass_name" /\ Remaining(call.before) # <<>>) =>
           /\ call.kind = "Ok"
           /\ Head(Remaining(call.before)).token.sym # "Identifier" =>
                  /\ call.val = Object
                  /\ Remaining(Self) = Remaining(call.before)
                  /\ accept(Self, Head(Remaining(call.before)).token.sym).kind = "Ok"
           /\ Head(Remaining(call.before)).token.sym = "Identifier" =>
                  /\ call.val = Unwrap(Head(Remaining(call.before)).token.text)
                  /\ Remaining(Self) = Tail(Remaining(call.before))
    /\ (call.op = "parse_class" /\ call.kind = "Ok") =>
           call.val.superclass = SuperclassOf(Remaining(call.before))

\* after "a =", parse_superclass_name met a '(' and left it in place
C4_Witness ==
    /\ call.op = "parse_superclass_name"
    /\ Len(input) >= 3
    /\ input[1].token.sym = "Identifier"
    /\ input[2].token = Token("Equal")
    /\ input[3].token = Token("NewTerm")
    /\ Remaining(call.before) = SubSeq(input, 3, Len(input))
    /\ call.val = Object
    /\ Remaining(Self) = Remaining(call.before)

---------------------------------------------------------------------------
(* C5: when the next token's symbol is not among the expected ones, expect *)
(* and expect_one_of return a ParseError whose description is              *)
(* "Expected [<expected symbols>], found <found symbol>", whose filename   *)
(* is the parser's label, and whose line and column are those of the first *)
(* character of that token, both counted from 1.                           *)

\* the places of the source where a token starts
TokenStarts(text) ==
    {i \in 1..Len(text) :
        \/ text[i] = "("
        \/ is_letter(text[i]) /\ (i = 1 \/ ~is_letter(text[i - 1]))}

\* the place where the k-th token starts
TokenStart(text, k) ==
    CHOOSE i \in TokenStarts(text) : Cardinality({j \in TokenStarts(text) : j <= i}) = k

NewlinesBefore(text, i) == {j \in 1..(i - 1) : text[j] = "\n"}

LineOf(text, i) == 1 + Cardinality(NewlinesBefore(text, i))

ColumnOf(text, i) ==
    i - (CHOOSE j \in NewlinesBefore(text, i) \cup {0} :
            \A l \in NewlinesBefore(text, i) : l <= j)

\* the expected symbols as the description shows them
Shown(expected) ==
    CASE expected = <<"Double">> -> "[Double]"
      [] expected = <<"Identifier">> -> "[Identifier]"
      [] expected = <<"NewTerm">> -> "[NewTerm]"
      [] expected = <<"Integer", "Double">> -> "[Integer, Double]"
      [] expected = <<"NewTerm", "Identifier">> -> "[NewTerm, Identifier]"

\* the symbols the call expected
Expected == IF call.op = "expect" THEN <<call.arg>> ELSE call.arg

\* the call was an expect or expect_one_of that met a token it does not want
Mismatched ==
    /\ call.op \in {"expect", "expect_one_of"}
    /\ Remaining(call.before) # <<>>
    /\ ~Contains(Expected, Head(Remaining(call.before)).token.sym)

\* the number in the input of the token the call met
Met == Len(input) - Len(Remaining(call.before)) + 1

C5_ParseErrorReport ==
    Mismatched =>
        /\ call.kind = "ParseError"
        /\ call.val.description =
               "Expected " \o Shown(Expected) \o ", found " \o input[Met].token.sym
        /\ call.val.filename = filename
        /\ call.val.line = LineOf(source0, TokenStart(source0, Met))
        /\ call.val.position = ColumnOf(source0, TokenStart(source0, Met))

\* expect(Double) on " \n  W": line 2, column 3
C5_Witness ==
    /\ source0 = <<" ", "\n", " ", " ", "W">>
    /\ call.op = "expect"
    /\ call.arg = "Double"
    /\ call.kind = "ParseError"
    /\ call.val = [description |-> "Expected [Double], found Identifier",
                   filename |-> "test", line |-> 2, position |-> 3]

---------------------------------------------------------------------------
(* Syntax trees and the tokens they were made of. *)

\* the tokens of a sequence of items
Tokens(items) == [i \in 1..Len(items) |-> items[i].token]

\* the nodes of a tree
RECURSIVE Nodes(_)
Nodes(e) ==
    {e} \cup
    CASE e.node = "UnaryMessage" -> Nodes(e.receiver)
      [] e.node = "BinaryMessage" -> Nodes(e.left) \cup Nodes(e.right)
      [] e.node = "KeywordMessage" ->
             Nodes(e.receiver) \cup UNION {Nodes(e.parameters[i]) : i \in DOMAIN e.parameters}
      [] e.node = "Assignment" -> Nodes(e.value)
      [] e.node = "Return" -> Nodes(e.value)
      [] e.node = "Block" -> UNION {Nodes(e.body[i]) : i \in DOMAIN e.body}
      [] OTHER -> {}

IsPrimary(e) ==
    e.node \in {"Variable", "LiteralNil", "LiteralBoolean", "LiteralInteger", "LiteralDouble",
                "LiteralString", "LiteralSymbol"}

\* a primary and the unary messages sent to it
RECURSIVE IsUnaryLevel(_)
IsUnaryLevel(e) == IsPrimary(e) \/ (e.node = "UnaryMessage" /\ IsUnaryLevel(e.receiver))

\* an operand and the binary messages sent to it, each with an operand
RECURSIVE IsBinaryLevel(_)
IsBinaryLevel(e) ==
    \/ IsUnaryLevel(e)
    \/ e.node = "BinaryMessage" /\ IsBinaryLevel(e.left) /\ IsUnaryLevel(e.right)

\* at most one keyword message, sent last, its arguments free of keywords
IsKeywordLevel(e) ==
    \/ IsBinaryLevel(e)
    \/ /\ e.node = "KeywordMessage"
       /\ IsBinaryLevel(e.receiver)
       /\ \A i \in DOMAIN e.parameters : IsBinaryLevel(e.parameters[i])

\* the operator token of a binary selector
OperatorToken(message) == IF message = <<"+">> THEN Token("Plus") ELSE Token("Minus")

\* the tokens a tree without parentheses was written with, from left to right
RECURSIVE Lexemes(_)
RECURSIVE KeywordLexemes(_)
Lexemes(e) ==
    CASE e.node = "Variable" -> <<TkId(e.name[1])>>
      [] e.node = "LiteralInteger" ->
             IF e.value < 0 THEN <<Token("Minus"), TkInt(<<"1">>)>> ELSE <<TkInt(<<"1">>)>>
      [] e.node = "UnaryMessage" -> Lexemes(e.receiver) \o <<TkId(e.message[1])>>
      [] e.node = "BinaryMessage" ->
             Lexemes(e.left) \o <<OperatorToken(e.message)>> \o Lexemes(e.right)
      [] e.node = "KeywordMessage" ->
             Lexemes(e.receiver) \o KeywordLexemes(e.parameters)

\* "k:" before each argument
KeywordLexemes(parameters) ==
    IF parameters = <<>> THEN <<>>
    ELSE <<TkKeyword>> \o Lexemes(Head(parameters)) \o KeywordLexemes(Tail(parameters))

\* the first token left, or no token
Upcoming == IF Remaining(Self) = <<>> THEN NoToken ELSE Head(Remaining(Self)).token

\* the call read the tokens of its tree and left the others
ReadItsTree ==
    Lexemes(call.val) \o Tokens(Remaining(Self)) = Tokens(Remaining(call.before))

---------------------------------------------------------------------------
(* C6: unary messages bind tighter than binary ones and binary ones        *)
(* tighter than keyword ones. On an input without parentheses the right    *)
(* operand of a binary message is a primary with all the unary messages    *)
(* that follow it, and a keyword argument is an operand with all the       *)
(* binary messages that follow it and holds no keyword message; a keyword  *)
(* that follows extends the same KeywordMessage.                           *)

C6_Precedence ==
    /\ (call.op = "parse_expression" /\ call.kind = "Ok") =>
           /\ IsKeywordLevel(call.val)
           /\ ReadItsTree
           /\ ~starts_message(Upcoming)
    /\ (call.op = "parse_expression_formula" /\ call.kind = "Ok") =>
           /\ IsBinaryLevel(call.val)
           /\ ReadItsTree
           /\ Upcoming.sym # "Identifier" /\ ~is_binary_operator(Upcoming.sym)
    /\ (call.op = "parse_expression"
            /\ Tokens(Remaining(call.before))
                   = <<TkId("a"), Token("Plus"), TkId("b"), TkId("a")>>) =>
           call.val = BinaryMessage(<<"+">>, Variable(<<"a">>),
                                    UnaryMessage(<<"a">>, Variable(<<"b">>)))
    /\ (call.op = "parse_expression"
            /\ Tokens(Remaining(call.before))
                   = <<TkInt(<<"1">>), TkId("a"), Token("Plus"), TkInt(<<"1">>)>>) =>
           call.val = BinaryMessage(<<"+">>, UnaryMessage(<<"a">>, LiteralInteger(1)),
                                    LiteralInteger(1))

\* "a k: b + 1 a" is one keyword message whose argument is b + (1 a)
C6_Witness ==
    /\ call.op = "parse_expression"
    /\ Tokens(call.before.lexer.rest) =
           <<TkId("a"), TkKeyword, TkId("b"), Token("Plus"), TkInt(<<"1">>)>>
    /\ call.val = KeywordMessage(<<"k", ":">>, Variable(<<"a">>),
                                 <<BinaryMessage(<<"+">>, Variable(<<"b">>),
                                                 LiteralInteger(1))>>)

---------------------------------------------------------------------------
(* C7: a chain e1 op1 e2 op2 e3 ... of binary messages without parentheses *)
(* is parsed from the left, whatever the operators are, by                 *)
(* parse_expression and by parse_expression_formula alike.                 *)

\* operand, then operator and operand, at least once
IsChain(tokens) ==
    /\ Len(tokens) >= 3
    /\ Len(tokens) % 2 = 1
    /\ \A i \in 1..Len(tokens) :
           IF i % 2 = 1 THEN tokens[i].sym \in {"Identifier", "Integer"}
           ELSE tokens[i].sym \in {"Plus", "Minus"}

\* the tree of an operand of one token
OperandOf(token) ==
    IF token.sym = "Identifier" THEN Variable(Unwrap(token.text)) ELSE LiteralInteger(1)

\* the chain as a tree that leans to the left
RECURSIVE FromTheLeft(_)
FromTheLeft(tokens) ==
    IF Len(tokens) = 1 THEN OperandOf(tokens[1])
    ELSE BinaryMessage(binary_symbol_to_string(tokens[Len(tokens) - 1].sym),
                       FromTheLeft(SubSeq(tokens, 1, Len(tokens) - 2)),
                       OperandOf(tokens[Len(tokens)]))

C7_LeftAssociative ==
    (call.op \in {"parse_expression", "parse_expression_formula"}
         /\ IsChain(Tokens(Remaining(call.before)))) =>
        /\ call.kind = "Ok"
        /\ call.val = FromTheLeft(Tokens(Remaining(call.before)))
        /\ Remaining(Self) = <<>>

\* "1 - a + b" as a keyword argument would be parsed: (1 - a) + b
C7_Witness ==
    /\ call.op = "parse_expression_formula"
    /\ Tokens(Remaining(call.before)) =
           <<TkInt(<<"1">>), Token("Minus"), TkId("a"), Token("Plus"), TkId("b")>>
    /\ call.val = BinaryMessage(<<"+">>,
                                BinaryMessage(<<"-">>, LiteralInteger(1), Variable(<<"a">>)),
                                Variable(<<"b">>))

---------------------------------------------------------------------------
(* C8: every KeywordMessage node has at least one parameter and a message  *)
(* that ends in ':' and holds as many ':' as the node has parameters.      *)

Colons(message) == Cardinality({i \in 1..Len(message) : message[i] = ":"})

WellFormedKeywordMessage(n) ==
    /\ n.parameters # <<>>
    /\ n.message # <<>>
    /\ n.message[Len(n.message)] = ":"
    /\ Colons(n.message) = Len(n.parameters)

C8_KeywordMessages ==
    (call.op \in {"parse_expression", "parse_expression_formula"} /\ call.kind = "Ok") =>
        \A n \in Nodes(call.val) : n.node = "KeywordMessage" => WellFormedKeywordMessage(n)

\* "a k: 1 k: b" is one message "k:k:" with two parameters
C8_Witness ==
    /\ call.op = "parse_expression"
    /\ call.kind = "Ok"
    /\ call.val.node = "KeywordMessage"
    /\ call.val.message = <<"k", ":", "k", ":">>
    /\ Len(call.val.parameters) = 2

---------------------------------------------------------------------------
(* C9: parse_expression on v1 := v2 := ... := vn := e, n >= 1, makes one   *)
(* Assignment whose variables are v1 ... vn in that order and whose value  *)
(* is the parse of the tail e; the value is an Assignment only when e      *)
(* opens with a parenthesis, and no Assignment has an empty variables.     *)

\* how many "variable :=" the items begin with
RECURSIVE Assigned(_)
Assigned(items) ==
    IF Len(items) >= 2 /\ items[1].token.sym = "Identifier" /\ items[2].token = Token("Assign")
    THEN 1 + Assigned(SubSeq(items, 3, Len(items)))
    ELSE 0

\* the parse of the tail by a parser of its own
TailParse(items) ==
    parse_expression(Parser_new(SubSeq(items, 2 * Assigned(items) + 1, Len(items)), filename))

C9_Assignment ==
    /\ (call.op = "parse_expression" /\ Assigned(Remaining(call.before)) >= 1) =>
           /\ call.kind = TailParse(Remaining(call.before)).kind
           /\ Remaining(Self) = Remaining(TailParse(Remaining(call.before)).p)
           /\ call.kind # "Ok" => call.val = TailParse(Remaining(call.before)).val
           /\ call.kind = "Ok" =>
                  /\ call.val.node = "Assignment"
                  /\ call.val.variables =
                         [i \in 1..Assigned(Remaining(call.before)) |->
                             Unwrap(Remaining(call.before)[2 * i - 1].token.text)]
                  /\ call.val.value = TailParse(Remaining(call.before)).val
                  /\ call.val.value.node = "Assignment" =>
                         Remaining(call.before)[2 * Assigned(Remaining(call.before)) + 1].token
                             = Token("NewTerm")
    /\ (call.op = "parse_expression" /\ call.kind = "Ok") =>
           \A n \in Nodes(call.val) : n.node = "Assignment" => n.variables # <<>>

\* "a := b := a" is Assignment([a, b], a)
C9_Witness ==
    /\ call.op = "parse_expression"
    /\ Tokens(call.before.lexer.rest) =
           <<TkId("a"), Token("Assign"), TkId("b"), Token("Assign"), TkId("a")>>
    /\ call.val = Assignment(<<<<"a">>, <<"b">>>>, Variable(<<"a">>))

---------------------------------------------------------------------------
(* C10: an Integer lexeme that does not fit the integer type, with or      *)
(* without a '-' before it, makes the parser return a ParseError.          *)

\* the number a run of digits writes
RECURSIVE DecimalValue(_)
DecimalValue(text) ==
    IF text = <<>> THEN 0
    ELSE 10 * DecimalValue(SubSeq(text, 1, Len(text) - 1)) + DigitValue(text[Len(text)])

Oversized(token) == token.sym = "Integer" /\ DecimalValue(Unwrap(token.text)) > I64Max

\* the items begin with a literal that does not fit, or with its negation
BeginsOversized(items) ==
    \/ Len(items) >= 1 /\ Oversized(items[1].token)
    \/ Len(items) >= 2 /\ items[1].token = Token("Minus") /\ Oversized(items[2].token)

C10_OverflowIsParseError ==
    (call.op \in {"parse_expression", "parse_expression_primary"}
         /\ BeginsOversized(Remaining(call.before))) =>
        call.kind = "ParseError"

---------------------------------------------------------------------------
(* C11: a character that can start no token is fatal: when the first       *)
(* character of the source that is not white space is such a character,    *)
(* reading tokens produces no token at all, neither for that character     *)
(* nor for what follows it.                                                *)

\* the characters of QuoteChars that start no token
StartsNoToken(c) == c = "?"

RECURSIVE SkipWhite(_)
SkipWhite(text) ==
    IF text # <<>> /\ is_whitespace(Head(text)) THEN SkipWhite(Tail(text)) ELSE text

BeginsUnexpected(text) == SkipWhite(text) # <<>> /\ StartsNoToken(Head(SkipWhite(text)))

C11_UnexpectedCharacterIsFatal == BeginsUnexpected(source0) => emitted = <<>>

---------------------------------------------------------------------------
(* C12: a string literal that is never closed still gives a String token:  *)
(* when the source is an opening quote followed by characters none of      *)
(* which is a quote, the first read returns the String token holding       *)
(* those characters, and only the read after it reports the end of input.  *)

Unterminated(text) ==
    /\ text # <<>>
    /\ Head(text) = "'"
    /\ \A i \in 2..Len(text) : text[i] # "'"

C12_UnterminatedStringIsClosed ==
    (Unterminated(source0) /\ status # "Init") =>
        emitted = <<TokenText("String", Tail(source0))>>

---------------------------------------------------------------------------
(* C13: wherever a token begins with a digit, the digits, a '.' and at     *)
(* least one more digit give one Double token holding all of them; digits  *)
(* followed by a '.' that no digit follows (the '.' may be the last        *)
(* character) give an Integer token holding the digits, and the read       *)
(* after it gives Period. The lexemes handed out and the characters still  *)
(* to be read always make up the source: none is lost or read twice. The   *)
(* Integer case is for digits that fit the integer type.                   *)

Lexeme(token) == IF token = Token("Period") THEN <<".">> ELSE Unwrap(token.text)

RECURSIVE LexemesOf(_)
LexemesOf(tokens) ==
    IF tokens = <<>> THEN <<>> ELSE Lexeme(Head(tokens)) \o LexemesOf(Tail(tokens))

\* the source text from where the token after the first n begins
RestAfter(n) ==
    SubSeq(source0, Len(LexemesOf(SubSeq(emitted, 1, n))) + 1, Len(source0))

RECURSIVE DigitRun(_)
DigitRun(text) ==
    IF text # <<>> /\ is_digit(Head(text)) THEN 1 + DigitRun(Tail(text)) ELSE 0

IntegralPart(text) == SubSeq(text, 1, DigitRun(text))

AfterIntegral(text) == SubSeq(text, DigitRun(text) + 1, Len(text))

IsDecimal(text) ==
    /\ DigitRun(text) >= 1
    /\ Len(AfterIntegral(text)) >= 2
    /\ AfterIntegral(text)[1] = "."
    /\ is_digit(AfterIntegral(text)[2])

DecimalLexeme(text) ==
    IntegralPart(text) \o <<".">> \o IntegralPart(Tail(AfterIntegral(text)))

IsIntegerThenPeriod(text) ==
    /\ DigitRun(text) >= 1
    /\ ~IsDecimal(text)
    /\ AfterIntegral(text) # <<>>
    /\ AfterIntegral(text)[1] = "."

Fits(text) == DecimalValue(IntegralPart(text)) <= I64Max

\* the read that has to give token n has been made
ReadMade(n) == Len(emitted) >= n \/ status \notin {"Init", "Ok"}

C13_WitnessDouble ==
    /\ source0 = <<"2", ".", "1", "a">>
    /\ Len(emitted) = 2
    /\ emitted[1] = TokenText("Double", <<"2", ".", "1">>)

---------------------------------------------------------------------------
(* C14: in every tree the parser builds, a Return is a direct element of   *)
(* a body only: no node has a Return for its receiver, operand, keyword    *)
(* argument, assigned value or returned value, and no expression is itself *)
(* a Return.                                                               *)

\* the children of a node that are not statements of a body
Operands(e) ==
    CASE e.node = "UnaryMessage" -> {e.receiver}
      [] e.node = "BinaryMessage" -> {e.left, e.right}
      [] e.node = "KeywordMessage" -> {e.receiver} \cup {e.parameters[i] : i \in DOMAIN e.parameters}
      [] e.node = "Assignment" -> {e.value}
      [] e.node = "Return" -> {e.value}
      [] OTHER -> {}

ReturnsInBodiesOnly(e) == \A n \in Nodes(e) : \A c \in Operands(n) : c.node # "Return"

C14_ReturnInBodyOnly ==
    /\ (call.op = "parse_block_body" /\ call.kind = "Ok") =>
           \A i \in DOMAIN call.val : ReturnsInBodiesOnly(call.val[i])
    /\ (call.op = "parse_expression" /\ call.kind = "Ok") =>
           call.val.node # "Return" /\ ReturnsInBodiesOnly(call.val)

\* "^ [ ^ a ]": a body whose statement is a Return of a block whose body
\* holds a Return
C14_Witness ==
    /\ call.op = "parse_block_body"
    /\ call.kind = "Ok"
    /\ call.val = <<Return(Block(<<>>, <<>>, <<Return(Variable(<<"a">>))>>))>>

---------------------------------------------------------------------------
(* C15: whenever a character is left to read, location() returns the line  *)
(* and the column, both counted from 1, of the character peek() would      *)
(* return next, whether a peek is outstanding or not; right after a line   *)
(* terminator was taken that is column 1 of the next line.                 *)

\* the characters the calls so far have taken from the text
Taken(log) == Cardinality({i \in DOMAIN log : log[i].op \in {"next", "consume"}})

\* the place in the text of the character read next
Upnext == Taken(emitted) + 1

C15_LocationOfNextCharacter ==
    (call.op = "location" /\ Upnext <= Len(source0)) =>
        call.val = Location(LineOf(source0, Upnext), ColumnOf(source0, Upnext))

---------------------------------------------------------------------------
(* C16: peek() takes nothing: whatever peeks are made between them, the    *)
(* calls of next() answer the characters of the text in order, each peek   *)
(* answers the character the following next() answers, and consume() after  *)
(* a peek drops that one character, the last of a line included. So the    *)
(* n-th call of the log answers the character after those the next and     *)
(* consume calls before it have taken, or None past the end.               *)

CharacterAt(k) == IF k <= Len(source0) THEN Some(source0[k]) ELSE None

C16_PeekTakesNothing ==
    \A i \in DOMAIN emitted :
        emitted[i].op \in {"next", "peek"} =>
            emitted[i].c = CharacterAt(Taken(SubSeq(emitted, 1, i - 1)) + 1)

\* "a\nb": next, then two peeks of the line terminator, consume, and next
\* answers the first character of the second line
C16_Witness ==
    /\ source0 = <<"a", "\n", "b">>
    /\ emitted = <<[op |-> "next", c |-> Some("a")], [op |-> "peek", c |-> Some("\n")],
                   [op |-> "peek", c |-> Some("\n")], [op |-> "consume", c |-> None],
                   [op |-> "next", c |-> Some("b")]>>

---------------------------------------------------------------------------
(* C17: the printed form of a class lists the entries of instance_methods  *)
(* and of class_methods in the order of their keys, and so every run over  *)
(* the same source prints the same text.                                   *)

\* the order of the letters
LetterRank(c) == CHOOSE i \in 1..3 : <<"a", "b", "f">>[i] = c

\* the entries come in the order of their keys, here one letter each
InKeyOrder(entries) ==
    \A i, j \in DOMAIN entries :
        i < j => LetterRank(entries[i][1][1]) < LetterRank(entries[j][1][1])

C17_PrintedInKeyOrder ==
    /\ \A i \in DOMAIN emitted :
           InKeyOrder(emitted[i].instance_methods) /\ InKeyOrder(emitted[i].class_methods)
    /\ \A i, j \in DOMAIN emitted : emitted[i] = emitted[j]

---------------------------------------------------------------------------
(* C18: parse_method answers the selector and the parameters its pattern   *)
(* writes: an identifier alone is the selector without parameters; the     *)
(* keywords of a keyword pattern, colons included and in order, make the   *)
(* selector and the identifier after each keyword is a parameter, as many  *)
(* as the selector has ':'; an operator is the selector with the one       *)
(* identifier after it for parameter. The method is Primitive exactly when *)
(* `primitive` follows the '=', otherwise Native with the locals and the   *)
(* body written between '(' and ')'.                                       *)

RECURSIVE IndexFrom(_, _, _)
\* the first place from i on where the token is, or one past the end
IndexFrom(tokens, token, i) ==
    IF i > Len(tokens) \/ tokens[i] = token THEN i ELSE IndexFrom(tokens, token, i + 1)

\* the items parse_method was called on, and their tokens
MethodItems == Remaining(call.before)

MethodTokens == Tokens(MethodItems)

\* the place of the '=' that ends the pattern
EqualAt == IndexFrom(MethodTokens, Token("Equal"), 1)

PatternOf == SubSeq(MethodTokens, 1, EqualAt - 1)

RECURSIVE Fragments(_)
\* the texts of the tokens at the odd places, one after the other
Fragments(pattern) ==
    IF pattern = <<>> THEN <<>>
    ELSE Unwrap(pattern[1].text) \o Fragments(SubSeq(pattern, 3, Len(pattern)))

RECURSIVE Arguments(_)
\* the texts of the tokens at the even places
Arguments(pattern) ==
    IF Len(pattern) < 2 THEN <<>>
    ELSE <<Unwrap(pattern[2].text)>> \o Arguments(SubSeq(pattern, 3, Len(pattern)))

PatternSelector(pattern) ==
    CASE pattern[1].sym = "Identifier" -> Unwrap(pattern[1].text)
      [] pattern[1].sym = "Keyword" -> Fragments(pattern)
      [] pattern[1].sym = "Plus" -> <<"+">>

PatternParameters(pattern) ==
    CASE pattern[1].sym = "Identifier" -> <<>>
      [] pattern[1].sym = "Keyword" -> Arguments(pattern)
      [] pattern[1].sym = "Plus" -> <<Unwrap(pattern[2].text)>>

\* a '|' right after the '(' opens the locals
HasLocals == Len(MethodTokens) >= EqualAt + 2 /\ MethodTokens[EqualAt + 2] = Token("Or")

\* the place of the '|' that closes the locals
LocalsEndAt == IndexFrom(MethodTokens, Token("Or"), EqualAt + 3)

LocalsWritten ==
    IF HasLocals
    THEN [i \in 1..(LocalsEndAt - EqualAt - 3) |-> Unwrap(MethodTokens[EqualAt + 2 + i].text)]
    ELSE <<>>

\* the place where the body begins
BodyAt == IF HasLocals THEN LocalsEndAt + 1 ELSE EqualAt + 2

\* the body read alone, from its first token
BodyAlone == parse_block_body(Parser_new(SubSeq(MethodItems, BodyAt, Len(MethodItems)), "test"))

C18_MethodPattern ==
    (call.op = "parse_method" /\ call.kind = "Ok") =>
        /\ PatternOf # <<>>
        /\ call.val.name = PatternSelector(PatternOf)
        /\ call.val.method.name = PatternSelector(PatternOf)
        /\ call.val.method.parameters = PatternParameters(PatternOf)
        /\ PatternOf[1].sym = "Keyword" =>
               Len(call.val.method.parameters) = Colons(call.val.name)
        /\ call.val.method.method = "Primitive" <=>
               MethodTokens[EqualAt + 1] = Token("Primitive")
        /\ call.val.method.method = "Primitive" =>
               Remaining(Self) = SubSeq(MethodItems, EqualAt + 2, Len(MethodItems))
        /\ call.val.method.method # "Primitive" =>
               /\ call.val.method.method = "Native"
               /\ MethodTokens[EqualAt + 1] = Token("NewTerm")
               /\ call.val.method.locals = LocalsWritten
               /\ call.val.method.body = BodyAlone.val
               /\ Remaining(BodyAlone.p) # <<>>
               /\ Head(Remaining(BodyAlone.p)).token = Token("EndTerm")
               /\ Remaining(Self) = Tail(Remaining(BodyAlone.p))

\* "k: a f: a = ( a )": the selector k:f: with two parameters and a body
C18_Witness ==
    /\ call.op = "parse_method"
    /\ call.kind = "Ok"
    /\ call.val.name = <<"k", ":", "f", ":">>
    /\ call.val.method =
           MethodNative(<<"k", ":", "f", ":">>, <<<<"a">>, <<"a">>>>, <<>>,
                        <<Variable(<<"a">>)>>)

---------------------------------------------------------------------------
(* C19: parse_block_parameters collects the identifiers of the pairs       *)
(* ':' identifier it is called on, in order. After one pair or more the    *)
(* next token has to be '|': it is consumed, and any other token there is  *)
(* a ParseError. After no pair nothing is consumed, so a '|' right after   *)
(* the '[' of a block opens the block's locals.                            *)

\* the tokens the call was made on
Before == Tokens(Remaining(call.before))

RECURSIVE Pairs(_)
\* how many pairs ':' identifier the tokens begin with
Pairs(tokens) ==
    IF Len(tokens) >= 2 /\ tokens[1] = Token("Colon") /\ tokens[2].sym = "Identifier"
    THEN 1 + Pairs(SubSeq(tokens, 3, Len(tokens)))
    ELSE 0

\* the identifiers of the first n pairs
PairNames(tokens, n) == [i \in 1..n |-> Unwrap(tokens[2 * i].text)]

\* the tokens after the first n pairs
AfterPairs(tokens) == SubSeq(tokens, 2 * Pairs(tokens) + 1, Len(tokens))

\* the same of the items
ItemsAfterPairs(items) == SubSeq(items, 2 * Pairs(Tokens(items)) + 1, Len(items))

\* the identifiers the tokens begin with
RECURSIVE Names(_)
Names(tokens) ==
    IF tokens # <<>> /\ tokens[1].sym = "Identifier"
    THEN <<Unwrap(tokens[1].text)>> \o Names(Tail(tokens))
    ELSE <<>>

C19_BlockParameters ==
    /\ (call.op = "parse_block_parameters" /\ Pairs(Before) >= 1
            /\ AfterPairs(Before) # <<>> /\ AfterPairs(Before)[1] = Token("Or")) =>
           /\ call.kind = "Ok"
           /\ call.val = PairNames(Before, Pairs(Before))
           /\ Remaining(Self) = Tail(ItemsAfterPairs(Remaining(call.before)))
    /\ (call.op = "parse_block_parameters" /\ Pairs(Before) >= 1
            /\ AfterPairs(Before) # <<>>
            /\ AfterPairs(Before)[1] \notin {Token("Or"), Token("Colon")}) =>
           call.kind = "ParseError"
    /\ (call.op = "parse_block_parameters" /\ Pairs(Before) = 0
            /\ (Before = <<>> \/ Before[1] # Token("Colon"))) =>
           /\ call.kind = "Ok"
           /\ call.val = <<>>
           /\ Remaining(Self) = Remaining(call.before)
    /\ (call.op = "parse_expression_nested_block" /\ call.kind = "Ok"
            /\ Before[2] = Token("Or")) =>
           /\ call.val.parameters = <<>>
           /\ call.val.locals = Names(SubSeq(Before, 3, Len(Before)))

\* ": a : b |" has given the parameters a and b and the '|' is gone
C19_Witness ==
    /\ call.op = "parse_block_parameters"
    /\ call.kind = "Ok"
    /\ call.val = <<<<"a">>, <<"b">>>>
    /\ Remaining(Self) = <<>>
    /\ Len(Remaining(call.before)) = 5

\* "[ | a | ]": no parameter, and the '|' after '[' has opened the locals
C19_WitnessLocals ==
    /\ call.op = "parse_expression_nested_block"
    /\ call.kind = "Ok"
    /\ call.val = Block(<<>>, <<<<"a">>>>, <<>>)

---------------------------------------------------------------------------
(* C20: on a body of statements, each a run of identifiers with or         *)
(* without '^' before it, parse_block_body returns the statements in the   *)
(* order they are written and stops without error at ']', at ')', at the   *)
(* end of the input and after a statement no '.' follows; a '.' after the  *)
(* last statement adds no statement; the ']' or ')' stays unconsumed.      *)

\* the variable and the unary messages sent to it that identifiers write
RECURSIVE UnaryChain(_)
UnaryChain(names) ==
    IF Len(names) = 1 THEN Variable(names[1])
    ELSE UnaryMessage(names[Len(names)], UnaryChain(SubSeq(names, 1, Len(names) - 1)))

\* the tokens of a statement after its '^', if it has one
Returned(tokens) == IF tokens[1] = Token("Exit") THEN Tail(tokens) ELSE tokens

\* the statement the tokens begin with
Statement(tokens) ==
    IF tokens[1] = Token("Exit") THEN Return(UnaryChain(Names(Returned(tokens))))
    ELSE UnaryChain(Names(tokens))

\* the tokens after the statement the tokens begin with
AfterStatement(tokens) ==
    SubSeq(Returned(tokens), Len(Names(Returned(tokens))) + 1, Len(Returned(tokens)))

Ends(tokens) == tokens = <<>> \/ tokens[1] \in {Token("EndBlock"), Token("EndTerm")}

RECURSIVE Written(_, _)
\* the statements tokens write after those read, and the tokens left; ok is
\* FALSE when a statement begins that is none of this form
Written(tokens, statements) ==
    IF Ends(tokens) THEN [ok |-> TRUE, statements |-> statements, rest |-> tokens]
    ELSE IF Returned(tokens) = <<>> \/ Names(Returned(tokens)) = <<>>
    THEN [ok |-> FALSE, statements |-> statements, rest |-> tokens]
    ELSE IF AfterStatement(tokens) # <<>> /\ AfterStatement(tokens)[1] = Token("Period")
    THEN Written(Tail(AfterStatement(tokens)), Append(statements, Statement(tokens)))
    ELSE [ok |-> TRUE, statements |-> Append(statements, Statement(tokens)),
          rest |-> AfterStatement(tokens)]

C20_BlockBody ==
    (call.op = "parse_block_body" /\ Written(Before, <<>>).ok) =>
        /\ call.kind = "Ok"
        /\ call.val = Written(Before, <<>>).statements
        /\ Tokens(Remaining(Self)) = Written(Before, <<>>).rest

\* "a . b . ]": two statements in order, the '.' after the second adds
\* none, and the ']' is left
C20_Witness ==
    /\ call.op = "parse_block_body"
    /\ call.kind = "Ok"
    /\ Len(Before) = 5
    /\ call.val = <<Variable(<<"a">>), Variable(<<"b">>)>>
    /\ Tokens(Remaining(Self)) = <<Token("EndBlock")>>

---------------------------------------------------------------------------
(* C21: where an expression is required and the next token cannot start a  *)
(* primary, the parser returns a ParseError: parse_expression called on    *)
(* tokens whose first is '.', ']', '^', '+' or ':=' answers ParseError.    *)

CannotStartPrimary(token) == token.sym \in {"Period", "EndBlock", "Exit", "Plus", "Assign"}

C21_MismatchIsParseError ==
    (call.op = "parse_expression" /\ Before # <<>> /\ CannotStartPrimary(Before[1])) =>
        call.kind = "ParseError"

---------------------------------------------------------------------------
(* C22: every KeywordSequence token the lexer hands out holds two ':' or   *)
(* more and ends in ':', and every Keyword token holds exactly one ':',    *)
(* its last character.                                                     *)

EndsInColon(text) == text # <<>> /\ text[Len(text)] = ":"

C22_KeywordFragments ==
    \A i \in DOMAIN emitted :
        /\ emitted[i].sym = "KeywordSequence" =>
               Colons(Unwrap(emitted[i].text)) >= 2 /\ EndsInColon(Unwrap(emitted[i].text))
        /\ emitted[i].sym = "Keyword" =>
               Colons(Unwrap(emitted[i].text)) = 1 /\ EndsInColon(Unwrap(emitted[i].text))

---------------------------------------------------------------------------
(* C23: the queue, the lexer's peeked item and the lexer's rest always     *)
(* hold, in this order, the items of the input not consumed yet. peek(n)   *)
(* answers the n-th of them, or End when there are fewer, and removes      *)
(* none, also when it met the end of the input; consume(n) removes the     *)
(* first n; accept and expect remove the first when it is the symbol       *)
(* asked for and nothing when it is not.                                   *)

\* the items before the call without their first n
Without(n) ==
    SubSeq(Remaining(call.before), n + 1, Len(Remaining(call.before)))

IsSuffix(items, all) ==
    Len(items) <= Len(all) /\ items = SubSeq(all, Len(all) - Len(items) + 1, Len(all))

\* the first item before the call is of the symbol the call asked for
FirstIs(symbol) == Before # <<>> /\ Before[1].sym = symbol

C23_TokensInOrder ==
    /\ IsSuffix(Remaining(Self), input)
    /\ call.op = "peek" =>
           /\ Remaining(Self) = Remaining(call.before)
           /\ call.arg <= Len(Before) => call.kind = "Ok" /\ call.val = Before[call.arg]
           /\ call.arg > Len(Before) => call.kind = "End"
    /\ call.op = "consume" => call.kind = "Ok" /\ Remaining(Self) = Without(call.arg)
    /\ (call.op \in {"accept", "expect"} /\ FirstIs(call.arg)) =>
           call.kind = "Ok" /\ Remaining(Self) = Without(1)
    /\ (call.op \in {"accept", "expect"} /\ ~FirstIs(call.arg)) =>
           call.kind # "Ok" /\ Remaining(Self) = Remaining(call.before)
    /\ (call.op = "accept" /\ FirstIs(call.arg)) => call.val = Before[1]

\* "a =": a failed accept left a in the lexer's peek slot, then peek(3)
\* pulled both tokens, met the end, and both are still there
C23_Witness ==
    /\ call.op = "peek"
    /\ call.arg = 3
    /\ call.kind = "End"
    /\ call.before.lexer.peeked # None
    /\ Len(queue) = 2
    /\ Remaining(Self) = input

---------------------------------------------------------------------------
(* C24: the queue of the parser never holds more than two tokens: not      *)
(* when a production returns, and at no moment while it runs.              *)

C24_QueueAtMostTwo == Len(queue) <= 2 /\ call.longest <= 2

\* parse_expression has looked two tokens ahead for ':=' and returned a
\* tree; its queue held two tokens on the way
C24_Witness ==
    /\ call.op = "parse_expression"
    /\ call.kind = "Ok"
    /\ call.val.node = "Assignment"
    /\ call.before.queue = <<>>
    /\ call.longest = 2

---------------------------------------------------------------------------
(* C25: peek_char and peek_peek_char take nothing: whatever calls of them  *)
(* are made, failed ones included, read_char answers the characters of     *)
(* the source in order, peek_char answers the first unread character and   *)
(* peek_peek_char the second.                                              *)

\* the characters the read_char calls of a log have asked for
Read(log) == Cardinality({i \in DOMAIN log : log[i].op = "read_char"})

\* the characters read before the i-th call
ReadBefore(i) == Read(SubSeq(emitted, 1, i - 1))

C25_LooksTakeNothing ==
    \A i \in DOMAIN emitted :
        /\ emitted[i].op = "read_char" => emitted[i].c = CharacterAt(ReadBefore(i) + 1)
        /\ emitted[i].op = "peek_char" => emitted[i].c = CharacterAt(ReadBefore(i) + 1)
        /\ emitted[i].op = "peek_peek_char" => emitted[i].c = CharacterAt(ReadBefore(i) + 2)

---------------------------------------------------------------------------
(* C26: read_token ends on every finite input; where the input ends        *)
(* inside a comment, the read_token that meets the comment reports the end *)
(* of the input.                                                           *)

\* the double quotes of a text
Quotes(text) == Cardinality({i \in DOMAIN text : text[i] = "\""})

\* the source ends inside a comment
OpenComment == Quotes(source0) % 2 = 1

C26_ReadTokenTerminates ==
    /\ status # "Diverge"
    /\ (OpenComment /\ status \notin {"Init", "Ok"}) => status = "Eof"

---------------------------------------------------------------------------
(* C27: the read_token that answers Separator takes '-' characters only:   *)
(* the last character it took from the source is a '-', and the character  *)
(* after the run is still unread. The source "----)" is lexed as Separator *)
(* and then EndTerm.                                                       *)

\* the characters of the source the lexer has not taken yet
Unread == buffer.backlog \o buffer.source

\* the last read_token answered Separator
SeparatorRead ==
    status = "Ok" /\ emitted # <<>> /\ emitted[Len(emitted)] = Token("Separator")

DashesThenEndTerm == <<"-", "-", "-", "-", ")">>

C27_SeparatorTakesDashes ==
    /\ SeparatorRead => source0[Len(source0) - Len(Unread)] = "-"
    /\ (source0 = DashesThenEndTerm /\ status = "Eof")
           => emitted = <<Token("Separator"), Token("EndTerm")>>

---------------------------------------------------------------------------
(* C28: successive next() calls answer the characters of the source in     *)
(* order, the i-th call the i-th character, and None only past the last    *)
(* one, whether or not a line holds a character of more than one byte.     *)

C28_NextDeliversAll ==
    (\A i \in DOMAIN emitted : emitted[i].op = "next")
        => \A i \in DOMAIN emitted : emitted[i].c = CharacterAt(i)

---------------------------------------------------------------------------
(* C29: the end of the input is stable: once a next or a peek has answered *)
(* None, every later next and peek answers None, and no later call changes *)
(* what location answers.                                                  *)

\* a next or a peek has answered None
EndSeen == \E i \in DOMAIN emitted : emitted[i].op \in {"next", "peek"} /\ emitted[i].c = None

\* the call made in this step, if it is a next or a peek, answers None
AnswersNone ==
    (emitted' # emitted /\ emitted'[Len(emitted')].op \in {"next", "peek"})
        => emitted'[Len(emitted')].c = None

LocationKept == util_location(buffer') = util_location(buffer)

C29_EndIsStable == [][EndSeen => (AnswersNone /\ LocationKept)]_vars

---------------------------------------------------------------------------
(* C30: when parse_class succeeds, instance_methods holds the selectors    *)
(* defined before the Separator and class_methods those defined after it,  *)
(* and the variables go likewise; every key of the two maps is the name of *)
(* the method stored under it; of the definitions of one selector on one   *)
(* side the last is the one kept.                                          *)

\* where the Separator is written, past the end if it is not
SeparatorAt == IndexFrom(Before, Token("Separator"), 1)

\* where a method is written: a selector and '=', the class's own excepted
Defined == {i \in 2..(Len(Before) - 1) :
               Before[i].sym = "Identifier" /\ Before[i + 1] = Token("Equal")}

DefinedInstance == {i \in Defined : i < SeparatorAt}

DefinedClass == {i \in Defined : i > SeparatorAt}

SelectorsAt(places) == {Unwrap(Before[i].text) : i \in places}

\* the last place of those given where the selector is written
LastOf(places, selector) ==
    CHOOSE i \in places :
        /\ Unwrap(Before[i].text) = selector
        /\ \A j \in places : Unwrap(Before[j].text) = selector => j <= i

\* the kind of method written at a place: "= primitive" or "= ( ... )"
KindAt(i) == IF Before[i + 2] = Token("Primitive") THEN "Primitive" ELSE "Native"

\* the variables written from a place on: | names |, or nothing
VariablesAt(i) ==
    IF i <= Len(Before) /\ Before[i] = Token("Or")
    THEN Names(SubSeq(Before, i + 1, Len(Before)))
    ELSE <<>>

\* a map holds what is written at the places
Holds(map, places) ==
    /\ DOMAIN map = SelectorsAt(places)
    /\ \A k \in DOMAIN map :
           /\ map[k].name = k
           /\ map[k].method = KindAt(LastOf(places, k))

C30_MembersBySide ==
    (call.op = "parse_class" /\ call.kind = "Ok") =>
        /\ Holds(call.val.instance_methods, DefinedInstance)
        /\ Holds(call.val.class_methods, DefinedClass)
        /\ call.val.instance_variables = VariablesAt(4)
        /\ call.val.class_variables = VariablesAt(SeparatorAt + 1)

\* | a | a = primitive  a = ( )  ----  | b a | b = primitive
C30_Witness ==
    /\ call.op = "parse_class"
    /\ call.kind = "Ok"
    /\ DOMAIN call.val.instance_methods = {<<"a">>}
    /\ call.val.instance_methods[<<"a">>].method = "Native"
    /\ Cardinality({i \in DefinedInstance : KindAt(i) = "Primitive"}) = 1
    /\ DOMAIN call.val.class_methods = {<<"b">>}
    /\ call.val.instance_variables = <<<<"a">>>>
    /\ call.val.class_variables = <<<<"b">>, <<"a">>>>

===========================================================================
